---- MODULE Spec2Model ----
(***************************************************************************)
(* A model of the tui_tiling layout tree: Component (leaf) and             *)
(* ContainerList (composite), their resize / handle_key / handle_mouse     *)
(* operations and the ContainerSearch queries.                             *)
(*                                                                         *)
(* A node is a record; a ContainerList owns its children as a sequence of  *)
(* node records (Vec<ContainerChild>), so the whole tree is one value.     *)
(* A leaf is addressed by its path: the sequence of child indices (1-based)*)
(* from the root down to it.                                               *)
(***************************************************************************)
EXTENDS Integers, Sequences, FiniteSets, TLC

VARIABLES
    tree,   \* the root node (a ContainerList, or a single Component)
    last    \* what the last call returned: "Ok" (also for the calls that
            \* return nothing), "Err" (a ResizeError) or "Panic"

vars == <<tree, last>>

-----------------------------------------------------------------------------
(* Bounds of the model *)

\* largest width passed to resize, and largest mouse column + 1
MaxWidth == 5
\* largest height passed to resize, and largest mouse row + 1
MaxHeight == 4
\* the width of the screen of the three-level tree
WideWidth == 16

-----------------------------------------------------------------------------
(* Vocabulary: lib.rs *)

FocusValues == {"Focus", "PartialFocus", "None"}
Borders == {"Top", "Bottom", "Left", "Right"}
\* Option<Border>::None
NoBorder == "NoBorder"

Max(a, b) == IF a > b THEN a ELSE b

\* u16 subtraction as the release build computes it (the debug build panics
\* when b > a)
SubU16(a, b) == (a - b) % 65536

-----------------------------------------------------------------------------
(* Component: component.rs *)

\* Component::new
NewComponent(name, border_width) ==
    [kind |-> "Component", name |-> name, width |-> 0, height |-> 0,
     fixed_width |-> FALSE, fixed_height |-> FALSE,
     border_width |-> border_width, invalidated |-> TRUE, focus |-> "None"]

\* Component::set_fixed_width(Some(width))
set_fixed_width(c, width) == [c EXCEPT !.width = width, !.fixed_width = TRUE]

\* Component::set_fixed_height(Some(height))
set_fixed_height(c, height) == [c EXCEPT !.height = height, !.fixed_height = TRUE]

\* a set_focus that does not ask for a redraw
set_focus_quiet(c, focus) == [c EXCEPT !.focus = focus]

\* Component::set_focus
set_focus(c, focus) ==
    IF c.focus # focus
    THEN [c EXCEPT !.focus = focus, !.invalidated = TRUE]
    ELSE c

\* a Component::resize that accepts a zero extent on a borderless leaf
Component_min_zero(c) == c.border_width * 2

\* the smallest extent Component::resize accepts
Component_min(c) == Max(c.border_width * 2, 1)

\* a Component::resize that guards the height by the fixed_width flag
Component_resize_swapped(c, width, height) ==
    IF width < Component_min(c) \/ height < Component_min(c)
    THEN [ok |-> FALSE, node |-> c]
    ELSE [ok |-> TRUE,
          node |-> [c EXCEPT
            !.invalidated = c.invalidated \/ c.width # width \/ c.height # height,
            !.width = IF c.fixed_width THEN c.width ELSE width,
            !.height = IF c.fixed_width THEN c.height ELSE height]]

\* a Component::resize that writes both extents whatever the fixed flags say
Component_resize_unguarded(c, width, height) ==
    IF width < Component_min(c) \/ height < Component_min(c)
    THEN [ok |-> FALSE, node |-> c]
    ELSE [ok |-> TRUE,
          node |-> [c EXCEPT
            !.invalidated = c.invalidated \/ c.width # width \/ c.height # height,
            !.width = width,
            !.height = height]]

\* Component::resize; ok = FALSE is Err(ResizeError)
Component_resize(c, width, height) ==
    IF width < Component_min(c) \/ height < Component_min(c)
    THEN [ok |-> FALSE, node |-> c]
    ELSE [ok |-> TRUE,
          node |-> [c EXCEPT
            !.invalidated = c.invalidated \/ c.width # width \/ c.height # height,
            !.width = IF c.fixed_width THEN c.width ELSE width,
            !.height = IF c.fixed_height THEN c.height ELSE height]]

\* TestComponentWidget::handle_key and handle_mouse: store the event, ask
\* for a redraw
Widget_handle(c) == TRUE

Keys == {"Enter", "Esc", "Up", "Down", "Left", "Right", "Char"}

\* the exit border an arrow key asks for
KeyBorder(key) ==
    CASE key = "Up" -> "Top"
      [] key = "Down" -> "Bottom"
      [] key = "Left" -> "Left"
      [] key = "Right" -> "Right"
      [] OTHER -> NoBorder

\* a Component::handle_key whose Enter takes a leaf without focus to
\* PartialFocus
Component_handle_key_partial(c, key) ==
    CASE c.focus = "Focus" ->
           IF key = "Esc"
           THEN [node |-> set_focus(c, "PartialFocus"), border |-> NoBorder]
           ELSE [node |-> [c EXCEPT !.invalidated = c.invalidated \/ Widget_handle(c)],
                 border |-> NoBorder]
      [] c.focus = "PartialFocus" ->
           IF key \in {"Up", "Down", "Left", "Right"}
           THEN [node |-> set_focus(c, "None"), border |-> KeyBorder(key)]
           ELSE IF key = "Enter"
           THEN [node |-> set_focus(c, "Focus"), border |-> NoBorder]
           ELSE [node |-> c, border |-> NoBorder]
      [] OTHER ->
           IF key = "Enter"
           THEN [node |-> set_focus(c, "PartialFocus"), border |-> NoBorder]
           ELSE [node |-> c, border |-> NoBorder]

\* a Component::handle_key that keeps PartialFocus when an arrow key leaves
Component_handle_key_sticky(c, key) ==
    CASE c.focus = "Focus" ->
           IF key = "Esc"
           THEN [node |-> set_focus(c, "PartialFocus"), border |-> NoBorder]
           ELSE [node |-> [c EXCEPT !.invalidated = c.invalidated \/ Widget_handle(c)],
                 border |-> NoBorder]
      [] c.focus = "PartialFocus" ->
           IF key \in {"Up", "Down", "Left", "Right"}
           THEN [node |-> c, border |-> KeyBorder(key)]
           ELSE IF key = "Enter"
           THEN [node |-> set_focus(c, "Focus"), border |-> NoBorder]
           ELSE [node |-> c, border |-> NoBorder]
      [] OTHER ->
           IF key = "Enter"
           THEN [node |-> set_focus(c, "Focus"), border |-> NoBorder]
           ELSE [node |-> c, border |-> NoBorder]

\* a Component::handle_key that lets the arrows take a leaf out of Focus as
\* they take it out of PartialFocus
Component_handle_key_arrows(c, key) ==
    CASE c.focus \in {"Focus", "PartialFocus"} /\ key \in {"Up", "Down", "Left", "Right"} ->
           [node |-> set_focus(c, "None"), border |-> KeyBorder(key)]
      [] c.focus = "Focus" /\ key \notin {"Up", "Down", "Left", "Right"} ->
           IF key = "Esc"
           THEN [node |-> set_focus(c, "PartialFocus"), border |-> NoBorder]
           ELSE [node |-> [c EXCEPT !.invalidated = c.invalidated \/ Widget_handle(c)],
                 border |-> NoBorder]
      [] c.focus = "PartialFocus" /\ key \notin {"Up", "Down", "Left", "Right"} ->
           IF key = "Enter"
           THEN [node |-> set_focus(c, "Focus"), border |-> NoBorder]
           ELSE [node |-> c, border |-> NoBorder]
      [] OTHER ->
           IF key = "Enter"
           THEN [node |-> set_focus(c, "Focus"), border |-> NoBorder]
           ELSE [node |-> c, border |-> NoBorder]

\* Component::handle_key; border is the returned Option<Border>
Component_handle_key(c, key) ==
    CASE c.focus = "Focus" ->
           IF key = "Esc"
           THEN [node |-> set_focus(c, "PartialFocus"), border |-> NoBorder]
           ELSE [node |-> [c EXCEPT !.invalidated = c.invalidated \/ Widget_handle(c)],
                 border |-> NoBorder]
      [] c.focus = "PartialFocus" ->
           IF key \in {"Up", "Down", "Left", "Right"}
           THEN [node |-> set_focus(c, "None"), border |-> KeyBorder(key)]
           ELSE IF key = "Enter"
           THEN [node |-> set_focus(c, "Focus"), border |-> NoBorder]
           ELSE [node |-> c, border |-> NoBorder]
      [] OTHER ->
           IF key = "Enter"
           THEN [node |-> set_focus(c, "Focus"), border |-> NoBorder]
           ELSE [node |-> c, border |-> NoBorder]

\* MouseEventKind values that reach the tree; PointerLeft is Option::None
MouseKinds == {"DownLeft", "DragLeft", "UpLeft", "DownRight", "DragRight",
               "ScrollDown", "Moved"}
PointerLeft == "PointerLeft"

\* a handle_mouse that keeps the focus when the pointer has left
Component_handle_mouse_sticky(c, x, y, kind) ==
    IF kind = PointerLeft \/ kind = "Moved" THEN c
    ELSE LET in_component == x < c.width /\ y < c.height
             in_widget == /\ x >= c.border_width
                          /\ y >= c.border_width
                          /\ x < SubU16(c.width, c.border_width)
                          /\ y < SubU16(c.height, c.border_width)
             focused == IF kind \in {"DownLeft", "DragLeft"} /\ in_component
                        THEN set_focus(c, "Focus")
                        ELSE c
         IN  IF in_widget /\ focused.focus = "Focus"
             THEN [focused EXCEPT !.invalidated = focused.invalidated \/ Widget_handle(c)]
             ELSE focused

\* Component::handle_mouse
Component_handle_mouse(c, x, y, kind) ==
    IF kind = PointerLeft THEN set_focus(c, "None")
    ELSE IF kind = "Moved" THEN c
    ELSE LET in_component == x < c.width /\ y < c.height
             in_widget == /\ x >= c.border_width
                          /\ y >= c.border_width
                          /\ x < SubU16(c.width, c.border_width)
                          /\ y < SubU16(c.height, c.border_width)
             focused == IF kind \in {"DownLeft", "DragLeft"} /\ in_component
                        THEN set_focus(c, "Focus")
                        ELSE c
         IN  IF in_widget /\ focused.focus = "Focus"
             THEN [focused EXCEPT !.invalidated = focused.invalidated \/ Widget_handle(c)]
             ELSE focused

\* nothing was handed to the widget
NotSent == [sent |-> FALSE, x |-> 0, y |-> 0]

\* what Component::handle_mouse hands to widget.handle_mouse: the event's
\* coordinates less the border, when the point is in the widget and the
\* component has Focus after the focus update
Component_forward_mouse(c, x, y, kind) ==
    IF kind = PointerLeft \/ kind = "Moved" THEN NotSent
    ELSE LET in_component == x < c.width /\ y < c.height
             in_widget == /\ x >= c.border_width
                          /\ y >= c.border_width
                          /\ x < SubU16(c.width, c.border_width)
                          /\ y < SubU16(c.height, c.border_width)
             focus == IF kind \in {"DownLeft", "DragLeft"} /\ in_component
                      THEN "Focus" ELSE c.focus
         IN  IF in_widget /\ focus = "Focus"
             THEN [sent |-> TRUE, x |-> SubU16(x, c.border_width),
                   y |-> SubU16(y, c.border_width)]
             ELSE NotSent

\* the computation of in_widget subtracts a border larger than the extent:
\* the && chain reaches width - border_width when x and y are not less than
\* the border, and height - border_width when x is also less than the
\* (wrapped) difference. The debug build panics there, the release build wraps
Component_mouse_overflows(c, x, y, kind) ==
    /\ kind # PointerLeft /\ kind # "Moved"
    /\ x >= c.border_width /\ y >= c.border_width
    /\ \/ c.width < c.border_width
       \/ x < SubU16(c.width, c.border_width) /\ c.height < c.border_width

\* a get_border that looks at the horizontal edges first
Component_get_border_rows(c, x, y) ==
    IF x >= c.width \/ y >= c.height THEN NoBorder
    ELSE IF y < c.border_width THEN "Top"
    ELSE IF y >= SubU16(c.height, c.border_width) THEN "Bottom"
    ELSE IF x < c.border_width THEN "Left"
    ELSE IF x >= SubU16(c.width, c.border_width) THEN "Right"
    ELSE NoBorder

\* Component::get_border
Component_get_border(c, x, y) ==
    IF x >= c.width \/ y >= c.height THEN NoBorder
    ELSE IF x < c.border_width THEN "Left"
    ELSE IF x >= SubU16(c.width, c.border_width) THEN "Right"
    ELSE IF y < c.border_width THEN "Top"
    ELSE IF y >= SubU16(c.height, c.border_width) THEN "Bottom"
    ELSE NoBorder

\* what Component::render draws into the buffer for the area it is given:
\* nothing when the component is not dirty; else the border block if there is
\* a border, and the widget if the area is larger than the borders
Component_render_writes(c, area) ==
    IF ~c.invalidated THEN [border |-> FALSE, widget |-> FALSE]
    ELSE [border |-> c.border_width > 0,
          widget |-> ~(area.width <= c.border_width * 2
                       \/ area.height <= c.border_width * 2)]

\* Component::render: clears the dirty flag
Component_render(c) == [c EXCEPT !.invalidated = FALSE]

-----------------------------------------------------------------------------
(* Geometry: pos.rs (ComponentPos) and tui::layout::Rect *)

\* ComponentPos::intersects_rect: the point lies inside the rectangle
intersects_rect(pos, rect) ==
    /\ pos.x >= rect.x /\ pos.x < rect.x + rect.width
    /\ pos.y >= rect.y /\ pos.y < rect.y + rect.height

\* Rect::from(ComponentPos): the one-cell rectangle at the point
RectFromPos(pos) == [x |-> pos.x, y |-> pos.y, width |-> 1, height |-> 1]

\* tui Rect::intersects
Rect_intersects(a, b) ==
    /\ a.x < b.x + b.width /\ a.x + a.width > b.x
    /\ a.y < b.y + b.height /\ a.y + a.height > b.y

\* ComponentPos + ComponentPos
PosAdd(p, q) == [x |-> p.x + q.x, y |-> p.y + q.y]

\* ComponentPos - ComponentPos, used where p contains q
PosSub(p, q) == [x |-> p.x - q.x, y |-> p.y - q.y]

-----------------------------------------------------------------------------
(* ContainerList: container/list.rs *)

\* Resize::None
ResizeNone == [tag |-> "None", mouse_offset |-> 0, child_index |-> 0]

\* Resize::new; child_index is 0-based as in the source
Resize_new(mouse_offset, border, child_index, child_len) ==
    LET first == child_index = 0
        last_ == child_index = child_len - 1
    IN  IF border \in {"Left", "Top"} /\ ~first
        THEN [tag |-> "LeftTop", mouse_offset |-> mouse_offset, child_index |-> child_index]
        ELSE IF border \in {"Right", "Bottom"} /\ ~last_
        THEN [tag |-> "RightBottom", mouse_offset |-> mouse_offset, child_index |-> child_index]
        ELSE ResizeNone

\* ContainerList::new
NewContainerList(name, orientation, resizable, width, height) ==
    [kind |-> "ContainerList", name |-> name, orientation |-> orientation,
     resizable |-> resizable, resize |-> ResizeNone,
     width |-> width, height |-> height, children |-> <<>>]

RECURSIVE is_fixed_width(_)
\* ComponentBase::is_fixed_width
is_fixed_width(n) ==
    IF n.kind = "Component" THEN n.fixed_width
    ELSE \A i \in 1..Len(n.children) : is_fixed_width(n.children[i])

RECURSIVE is_fixed_height(_)
\* ComponentBase::is_fixed_height
is_fixed_height(n) ==
    IF n.kind = "Component" THEN n.fixed_height
    ELSE \A i \in 1..Len(n.children) : is_fixed_height(n.children[i])

\* the extent of a node along the layout axis of a container of this orientation
LayoutExtent(orientation, c) ==
    IF orientation = "Horizontal" THEN c.width ELSE c.height

\* the extent of a node across the layout axis
CrossExtent(orientation, c) ==
    IF orientation = "Horizontal" THEN c.height ELSE c.width

\* whether a node is fixed along the layout axis
LayoutFixed(orientation, c) ==
    IF orientation = "Horizontal" THEN is_fixed_width(c) ELSE is_fixed_height(c)

RECURSIVE SumSeq(_)
SumSeq(s) == IF s = <<>> THEN 0 ELSE Head(s) + SumSeq(Tail(s))

\* ((num / den) * size as f64) as u16, num / den being an f64 quotient of
\* two integers 0 < num <= den: the f64 product truncates to the exact
\* integer floor for all num, den, size <= 40 but these four
F64Share(num, den, size) ==
    IF <<num, den, size>> \in {<<15, 22, 22>>, <<13, 23, 23>>, <<15, 26, 26>>, <<31, 39, 39>>}
    THEN (num * size) \div den - 1
    ELSE (num * size) \div den

\* a get_sizing_constraints that gives every ratio child the same ratio
\* whatever the current extents
get_sizing_constraints_equal(n) ==
    LET cs == n.children
        idx == 1..Len(cs)
        isFixed(i) == LayoutFixed(n.orientation, cs[i])
        ext(i) == LayoutExtent(n.orientation, cs[i])
        num_ratio == Cardinality({i \in idx : ~isFixed(i)})
    IN  [i \in idx |->
            IF isFixed(i)
            THEN [tag |-> "Fixed", fixed |-> ext(i), num |-> 0, den |-> 1]
            ELSE [tag |-> "Ratio", fixed |-> 0, num |-> 1, den |-> num_ratio]]

\* a get_sizing_constraints without the fallback: a ratio child keeps its
\* extent as weight when some ratio child has extent zero (a sum of zero
\* leaves every share zero)
get_sizing_constraints_weighted(n) ==
    LET cs == n.children
        idx == 1..Len(cs)
        isFixed(i) == LayoutFixed(n.orientation, cs[i])
        ext(i) == LayoutExtent(n.orientation, cs[i])
        total_ratio == SumSeq([i \in idx |-> IF isFixed(i) THEN 0 ELSE ext(i)])
    IN  [i \in idx |->
            IF isFixed(i)
            THEN [tag |-> "Fixed", fixed |-> ext(i), num |-> 0, den |-> 1]
            ELSE [tag |-> "Ratio", fixed |-> 0, num |-> ext(i),
                  den |-> IF total_ratio = 0 THEN 1 ELSE total_ratio]]

\* ContainerList::get_sizing_constraints: Fixed(fixed) or Ratio(num / den)
get_sizing_constraints(n) ==
    LET cs == n.children
        idx == 1..Len(cs)
        isFixed(i) == LayoutFixed(n.orientation, cs[i])
        ext(i) == LayoutExtent(n.orientation, cs[i])
        total_ratio == SumSeq([i \in idx |-> IF isFixed(i) THEN 0 ELSE ext(i)])
        num_ratio == Cardinality({i \in idx : ~isFixed(i)})
        any_ratio_zero == \E i \in idx : ~isFixed(i) /\ ext(i) = 0
    IN  [i \in idx |->
            IF isFixed(i)
            THEN [tag |-> "Fixed", fixed |-> ext(i), num |-> 0, den |-> 1]
            ELSE IF any_ratio_zero
            THEN [tag |-> "Ratio", fixed |-> 0, num |-> 1, den |-> num_ratio]
            ELSE [tag |-> "Ratio", fixed |-> 0, num |-> ext(i), den |-> total_ratio]]

\* a calculate_sizes that gives the last ratio child its share, not the rest
calculate_sizes_floor(constraints, size) ==
    LET idx == 1..Len(constraints)
        fixed_total == SumSeq([i \in idx |->
            IF constraints[i].tag = "Fixed" THEN constraints[i].fixed ELSE 0])
        avail == size - fixed_total
        ratios == {i \in idx : constraints[i].tag = "Ratio"}
        share(i) == F64Share(constraints[i].num, constraints[i].den, avail)
        result == [i \in idx |->
            IF constraints[i].tag = "Fixed" THEN constraints[i].fixed ELSE share(i)]
    IN  IF fixed_total > size THEN [ok |-> FALSE, sizes |-> <<>>]
        ELSE IF \E i \in ratios : result[i] = 0 THEN [ok |-> FALSE, sizes |-> <<>>]
        ELSE [ok |-> TRUE, sizes |-> result]

\* a calculate_sizes that does not check the fixed children against the size
calculate_sizes_overfull(constraints, size) ==
    LET idx == 1..Len(constraints)
        fixed_total == SumSeq([i \in idx |->
            IF constraints[i].tag = "Fixed" THEN constraints[i].fixed ELSE 0])
        avail == IF fixed_total > size THEN 0 ELSE size - fixed_total
        ratios == {i \in idx : constraints[i].tag = "Ratio"}
        lastRatio == CHOOSE i \in ratios : \A j \in ratios : j <= i
        share(i) == F64Share(constraints[i].num, constraints[i].den, avail)
        before == SumSeq([i \in idx |->
            IF i \in ratios /\ i # lastRatio THEN share(i) ELSE 0])
        result == [i \in idx |->
            IF constraints[i].tag = "Fixed" THEN constraints[i].fixed
            ELSE IF i # lastRatio THEN share(i)
            ELSE avail - before]
    IN  IF \E i \in ratios : result[i] = 0 THEN [ok |-> FALSE, sizes |-> <<>>]
        ELSE [ok |-> TRUE, sizes |-> result]

\* ContainerList::calculate_sizes; ok = FALSE is None
calculate_sizes(constraints, size) ==
    LET idx == 1..Len(constraints)
        fixed_total == SumSeq([i \in idx |->
            IF constraints[i].tag = "Fixed" THEN constraints[i].fixed ELSE 0])
        avail == size - fixed_total
        ratios == {i \in idx : constraints[i].tag = "Ratio"}
        lastRatio == CHOOSE i \in ratios : \A j \in ratios : j <= i
        share(i) == F64Share(constraints[i].num, constraints[i].den, avail)
        before == SumSeq([i \in idx |->
            IF i \in ratios /\ i # lastRatio THEN share(i) ELSE 0])
        result == [i \in idx |->
            IF constraints[i].tag = "Fixed" THEN constraints[i].fixed
            ELSE IF i # lastRatio THEN share(i)
            ELSE avail - before]
    IN  IF fixed_total > size THEN [ok |-> FALSE, sizes |-> <<>>]
        ELSE IF \E i \in ratios : result[i] = 0 THEN [ok |-> FALSE, sizes |-> <<>>]
        ELSE [ok |-> TRUE, sizes |-> result]

RECURSIVE invalidate(_)
\* ComponentBase::invalidate
invalidate(n) ==
    IF n.kind = "Component" THEN [n EXCEPT !.invalidated = TRUE]
    ELSE [n EXCEPT !.children = [i \in 1..Len(n.children) |-> invalidate(n.children[i])]]

RECURSIVE Base_render(_)
\* ComponentBase::render: ContainerList::render renders every child
Base_render(n) ==
    IF n.kind = "Component" THEN Component_render(n)
    ELSE [n EXCEPT !.children = [i \in 1..Len(n.children) |-> Base_render(n.children[i])]]

\* ContainerList::get_children_rectangles
get_children_rectangles(n) ==
    [i \in 1..Len(n.children) |->
        LET off == SumSeq([j \in 1..(i - 1) |-> LayoutExtent(n.orientation, n.children[j])])
        IN  [x |-> IF n.orientation = "Horizontal" THEN off ELSE 0,
             y |-> IF n.orientation = "Vertical" THEN off ELSE 0,
             width |-> n.children[i].width,
             height |-> n.children[i].height]]

RECURSIVE Base_resize(_, _, _)
RECURSIVE ResizeChildren(_, _, _)

\* one step of the loop of ContainerList::resize: r is the result of child
\* i's resize; the loop stops at the first child whose resize fails
ResizeChildStep(children, new_sizes, i, r) ==
    IF r.ok
    THEN ResizeChildren([children EXCEPT ![i] = r.node], new_sizes, i + 1)
    ELSE [ok |-> FALSE, children |-> [children EXCEPT ![i] = r.node]]

\* the loop of ContainerList::resize over new_sizes, from child i on
ResizeChildren(children, new_sizes, i) ==
    IF i > Len(children) THEN [ok |-> TRUE, children |-> children]
    ELSE ResizeChildStep(children, new_sizes, i,
            Base_resize(children[i], new_sizes[i][1], new_sizes[i][2]))

\* the rollback loop of ContainerList::resize: every child is resized to its
\* old dimensions and the result is dropped
RollbackChildren(children, old_dimensions) ==
    [i \in 1..Len(children) |->
        Base_resize(children[i], old_dimensions[i][1], old_dimensions[i][2]).node]

\* the end of ContainerList::resize: rs is the outcome of the loop over the
\* children
ResizeCommit(n, width, height, old_dimensions, rs) ==
    IF ~rs.ok
    THEN [ok |-> FALSE,
          node |-> [n EXCEPT !.children = RollbackChildren(rs.children, old_dimensions)]]
    ELSE [ok |-> TRUE,
          node |-> invalidate([n EXCEPT !.width = width, !.height = height,
                                        !.children = rs.children])]

\* ContainerList::resize from the computed sizes on; calc is the result of
\* calculate_sizes
ResizeWithSizes(n, width, height, calc) ==
    IF ~calc.ok THEN [ok |-> FALSE, node |-> n]
    ELSE ResizeCommit(n, width, height,
            [i \in 1..Len(n.children) |-> <<n.children[i].width, n.children[i].height>>],
            ResizeChildren(n.children,
                [i \in 1..Len(n.children) |->
                    IF n.orientation = "Horizontal"
                    THEN <<calc.sizes[i], height>>
                    ELSE <<width, calc.sizes[i]>>],
                1))

\* a ContainerList::resize without the early return on an unchanged size
ContainerList_resize_always(n, width, height) ==
    ResizeWithSizes(n, width, height,
        calculate_sizes(get_sizing_constraints(n),
            IF n.orientation = "Horizontal" THEN width ELSE height))

\* ContainerList::resize; ok = FALSE is Err(ResizeError)
ContainerList_resize(n, width, height) ==
    IF n.width = width /\ n.height = height THEN [ok |-> TRUE, node |-> n]
    ELSE ResizeWithSizes(n, width, height,
            calculate_sizes(get_sizing_constraints(n),
                IF n.orientation = "Horizontal" THEN width ELSE height))

\* dyn ComponentBase::resize
Base_resize(n, width, height) ==
    IF n.kind = "Component" THEN Component_resize(n, width, height)
    ELSE ContainerList_resize(n, width, height)

\* ContainerList::add_component and add_container: push, then resize to the
\* current size
add_child(n, child) ==
    LET pushed == [n EXCEPT !.children = Append(n.children, child)]
    IN  ContainerList_resize(pushed, pushed.width, pushed.height)

-----------------------------------------------------------------------------
(* ContainerSearch: container/search.rs *)

\* get_positions: the origins of the children's rectangles
get_positions(n) ==
    LET rects == get_children_rectangles(n)
    IN  [i \in 1..Len(rects) |-> [x |-> rects[i].x, y |-> rects[i].y]]

NotFocused == [tag |-> "None", path |-> <<>>, pos |-> [x |-> 0, y |-> 0]]

RECURSIVE SearchFocusedFrom_relative(_, _)
\* a search_focused that leaves out the offset of the leaf in its own list
SearchFocusedFrom_relative(n, i) ==
    IF i > Len(n.children) THEN NotFocused
    ELSE LET child == n.children[i]
             offset == get_positions(n)[i]
         IN  IF child.kind = "Component"
             THEN IF child.focus # "None"
                  THEN [tag |-> child.focus, path |-> <<i>>, pos |-> [x |-> 0, y |-> 0]]
                  ELSE SearchFocusedFrom_relative(n, i + 1)
             ELSE LET r == SearchFocusedFrom_relative(child, 1)
                  IN  IF r.tag # "None"
                      THEN [tag |-> r.tag, path |-> <<i>> \o r.path,
                            pos |-> PosAdd(offset, r.pos)]
                      ELSE SearchFocusedFrom_relative(n, i + 1)

RECURSIVE SearchFocusedFrom(_, _)
\* search_focused: the loop over the children from child i on; tag is the
\* FocusResult variant, path the leaf found, pos its absolute origin
SearchFocusedFrom(n, i) ==
    IF i > Len(n.children) THEN NotFocused
    ELSE LET child == n.children[i]
             offset == get_positions(n)[i]
         IN  IF child.kind = "Component"
             THEN IF child.focus # "None"
                  THEN [tag |-> child.focus, path |-> <<i>>, pos |-> offset]
                  ELSE SearchFocusedFrom(n, i + 1)
             ELSE LET r == SearchFocusedFrom(child, 1)
                  IN  IF r.tag # "None"
                      THEN [tag |-> r.tag, path |-> <<i>> \o r.path,
                            pos |-> PosAdd(offset, r.pos)]
                      ELSE SearchFocusedFrom(n, i + 1)

\* ContainerSearch::search_focused and search_focused_mut
search_focused(n) == SearchFocusedFrom(n, 1)

NotFound == [found |-> FALSE, path |-> <<>>, pos |-> [x |-> 0, y |-> 0]]

RECURSIVE search_position_point(_, _)
\* a search_position that returns the searched point in place of the origin
\* of the leaf found
search_position_point(n, pos) ==
    LET child_rects == get_children_rectangles(n)
        child_offsets == get_positions(n)
        hits == {i \in 1..Len(n.children) : Rect_intersects(child_rects[i], RectFromPos(pos))}
    IN  IF hits = {} THEN NotFound
        ELSE LET i == CHOOSE k \in hits : \A j \in hits : k <= j
                 child == n.children[i]
             IN  IF child.kind = "Component"
                 THEN [found |-> TRUE, path |-> <<i>>, pos |-> pos]
                 ELSE LET r == search_position_point(child, PosSub(pos, child_offsets[i]))
                      IN  IF r.found
                          THEN [found |-> TRUE, path |-> <<i>> \o r.path,
                                pos |-> PosAdd(child_offsets[i], r.pos)]
                          ELSE NotFound

RECURSIVE search_position(_, _)
\* ContainerSearch::search_position and search_position_mut: the first
\* child whose rectangle holds pos decides
search_position(n, pos) ==
    LET child_rects == get_children_rectangles(n)
        child_offsets == get_positions(n)
        hits == {i \in 1..Len(n.children) : Rect_intersects(child_rects[i], RectFromPos(pos))}
    IN  IF hits = {} THEN NotFound
        ELSE LET i == CHOOSE k \in hits : \A j \in hits : k <= j
                 child == n.children[i]
             IN  IF child.kind = "Component"
                 THEN [found |-> TRUE, path |-> <<i>>, pos |-> child_offsets[i]]
                 ELSE LET r == search_position(child, PosSub(pos, child_offsets[i]))
                      IN  IF r.found
                          THEN [found |-> TRUE, path |-> <<i>> \o r.path,
                                pos |-> PosAdd(child_offsets[i], r.pos)]
                          ELSE NotFound

RECURSIVE SearchNameFrom_container(_, _, _)
\* a search_name that returns a container at which the path is exhausted
SearchNameFrom_container(n, path, i) ==
    IF i > Len(n.children) THEN NotFound
    ELSE LET child == n.children[i]
             offset == get_positions(n)[i]
         IN  IF Head(path) # child.name THEN SearchNameFrom_container(n, path, i + 1)
             ELSE IF child.kind = "Component" \/ Tail(path) = <<>>
             THEN [found |-> TRUE, path |-> <<i>>, pos |-> offset]
             ELSE LET r == SearchNameFrom_container(child, Tail(path), 1)
                  IN  IF r.found
                      THEN [found |-> TRUE, path |-> <<i>> \o r.path,
                            pos |-> PosAdd(offset, r.pos)]
                      ELSE SearchNameFrom_container(n, path, i + 1)

RECURSIVE SearchNameFrom(_, _, _)
\* the loop of search_name over the children from child i on. A path is the
\* sequence of its segments between the dots ("" is the one empty segment):
\* before is Head(path), after is Tail(path), <<>> when there is no dot
SearchNameFrom(n, path, i) ==
    IF i > Len(n.children) THEN NotFound
    ELSE LET child == n.children[i]
             offset == get_positions(n)[i]
         IN  IF Head(path) # child.name THEN SearchNameFrom(n, path, i + 1)
             ELSE IF child.kind = "Component"
             THEN [found |-> TRUE, path |-> <<i>>, pos |-> offset]
             ELSE IF Tail(path) = <<>> THEN SearchNameFrom(n, path, i + 1)
             ELSE LET r == SearchNameFrom(child, Tail(path), 1)
                  IN  IF r.found
                      THEN [found |-> TRUE, path |-> <<i>> \o r.path,
                            pos |-> PosAdd(offset, r.pos)]
                      ELSE SearchNameFrom(n, path, i + 1)

\* ContainerSearch::search_name and search_name_mut
search_name(n, path) == SearchNameFrom(n, path, 1)

RECURSIVE NodeAt(_, _)
\* the node a path leads to (the reference a search returns)
NodeAt(n, path) ==
    IF path = <<>> THEN n ELSE NodeAt(n.children[Head(path)], Tail(path))

RECURSIVE SetAt(_, _, _)
\* the tree with the node at path replaced (a write through a &mut reference)
SetAt(n, path, new) ==
    IF path = <<>> THEN new
    ELSE [n EXCEPT !.children[Head(path)] = SetAt(n.children[Head(path)], Tail(path), new)]

-----------------------------------------------------------------------------
(* ContainerList input dispatch: container/list.rs *)

NoPos == [some |-> FALSE, x |-> 0, y |-> 0]

\* a find_next_pos that steps one cell down or right, not one component
find_next_pos_cell(pos, border, component_width, component_height, container_width, container_height) ==
    IF border = "Top" /\ pos.y > 0
    THEN [some |-> TRUE, x |-> pos.x, y |-> pos.y - 1]
    ELSE IF border = "Bottom" /\ pos.y + component_height < container_height
    THEN [some |-> TRUE, x |-> pos.x, y |-> pos.y + 1]
    ELSE IF border = "Left" /\ pos.x > 0
    THEN [some |-> TRUE, x |-> pos.x - 1, y |-> pos.y]
    ELSE IF border = "Right" /\ pos.x + component_width < container_width
    THEN [some |-> TRUE, x |-> pos.x + 1, y |-> pos.y]
    ELSE NoPos

\* find_next_pos; some = FALSE is None
find_next_pos(pos, border, component_width, component_height, container_width, container_height) ==
    IF border = "Top" /\ pos.y > 0
    THEN [some |-> TRUE, x |-> pos.x, y |-> pos.y - 1]
    ELSE IF border = "Bottom" /\ pos.y + component_height < container_height
    THEN [some |-> TRUE, x |-> pos.x, y |-> pos.y + component_height]
    ELSE IF border = "Left" /\ pos.x > 0
    THEN [some |-> TRUE, x |-> pos.x - 1, y |-> pos.y]
    ELSE IF border = "Right" /\ pos.x + component_width < container_width
    THEN [some |-> TRUE, x |-> pos.x + component_width, y |-> pos.y]
    ELSE NoPos

\* a first focus that gives full Focus
FirstFocus_full(n, key) ==
    IF key \notin {"Enter", "Up", "Down", "Left", "Right"} THEN n
    ELSE LET r == search_position(n, [x |-> 0, y |-> 0])
         IN  IF r.found
             THEN SetAt(n, r.path, set_focus(NodeAt(n, r.path), "Focus"))
             ELSE n

\* the FocusResult::None arm of ContainerList::handle_key
FirstFocus(n, key) ==
    IF key \notin {"Enter", "Up", "Down", "Left", "Right"} THEN n
    ELSE LET r == search_position(n, [x |-> 0, y |-> 0])
         IN  IF r.found
             THEN SetAt(n, r.path, set_focus(NodeAt(n, r.path), "PartialFocus"))
             ELSE n

\* a forwarding arm that drops what the component did with a key that
\* leaves no border
ForwardKey_dropped(n, key, f) ==
    LET hk == Component_handle_key(NodeAt(n, f.path), key)
        component == hk.node
        n1 == SetAt(n, f.path, component)
        next_pos == find_next_pos(f.pos, hk.border, component.width, component.height,
                                  n.width, n.height)
        r == search_position(n1, [x |-> next_pos.x, y |-> next_pos.y])
    IN  IF hk.border = NoBorder THEN n
        ELSE IF ~next_pos.some
        THEN SetAt(n1, f.path, set_focus(component, "PartialFocus"))
        ELSE IF r.found
        THEN SetAt(n1, r.path, set_focus(NodeAt(n1, r.path), "PartialFocus"))
        ELSE n1

\* a forwarding arm that does not give PartialFocus back when there is no
\* next position
ForwardKey_lost(n, key, f) ==
    LET hk == Component_handle_key(NodeAt(n, f.path), key)
        component == hk.node
        n1 == SetAt(n, f.path, component)
        next_pos == find_next_pos(f.pos, hk.border, component.width, component.height,
                                  n.width, n.height)
        r == search_position(n1, [x |-> next_pos.x, y |-> next_pos.y])
    IN  IF hk.border = NoBorder THEN n1
        ELSE IF ~next_pos.some THEN n1
        ELSE IF r.found
        THEN SetAt(n1, r.path, set_focus(NodeAt(n1, r.path), "PartialFocus"))
        ELSE n1

\* a forwarding arm that gives PartialFocus back when the search finds no
\* leaf at the next position
ForwardKey_kept(n, key, f) ==
    LET hk == Component_handle_key(NodeAt(n, f.path), key)
        component == hk.node
        n1 == SetAt(n, f.path, component)
        next_pos == find_next_pos(f.pos, hk.border, component.width, component.height,
                                  n.width, n.height)
        r == search_position(n1, [x |-> next_pos.x, y |-> next_pos.y])
    IN  IF hk.border = NoBorder THEN n1
        ELSE IF ~next_pos.some
        THEN SetAt(n1, f.path, set_focus(component, "PartialFocus"))
        ELSE IF r.found
        THEN SetAt(n1, r.path, set_focus(NodeAt(n1, r.path), "PartialFocus"))
        ELSE SetAt(n1, f.path, set_focus(component, "PartialFocus"))

\* the Focus / PartialFocus arm of ContainerList::handle_key
ForwardKey(n, key, f) ==
    LET hk == Component_handle_key(NodeAt(n, f.path), key)
        component == hk.node
        n1 == SetAt(n, f.path, component)
        next_pos == find_next_pos(f.pos, hk.border, component.width, component.height,
                                  n.width, n.height)
        r == search_position(n1, [x |-> next_pos.x, y |-> next_pos.y])
    IN  IF hk.border = NoBorder THEN n1
        ELSE IF ~next_pos.some
        THEN SetAt(n1, f.path, set_focus(component, "PartialFocus"))
        ELSE IF r.found
        THEN SetAt(n1, r.path, set_focus(NodeAt(n1, r.path), "PartialFocus"))
        ELSE n1

\* ContainerList::handle_key; it always returns None
ContainerList_handle_key(n, key) ==
    LET f == search_focused(n)
    IN  IF f.tag # "None" THEN ForwardKey(n, key, f) ELSE FirstFocus(n, key)

RECURSIVE Base_get_border(_, _, _)

\* a match that reports whatever border the child reports
OuterBorder_any(n, i, border) == border

\* the match at the end of ContainerList::get_border: border is what child
\* i (1-based) reports
OuterBorder(n, i, border) ==
    IF n.orientation = "Horizontal"
    THEN IF border \in {"Top", "Bottom"} THEN border
         ELSE IF border = "Left" /\ i = 1 THEN border
         ELSE IF border = "Right" /\ i = Len(n.children) THEN border
         ELSE NoBorder
    ELSE IF border \in {"Left", "Right"} THEN border
         ELSE IF border = "Top" /\ i = 1 THEN border
         ELSE IF border = "Bottom" /\ i = Len(n.children) THEN border
         ELSE NoBorder

\* the smallest member of a nonempty set of indices (the first child a loop
\* reaches)
FirstOf(S) == CHOOSE k \in S : \A j \in S : k <= j

\* the largest member of a nonempty set of indices
LastOf(S) == CHOOSE k \in S : \A j \in S : j <= k

\* the loop of ContainerList::get_border: the first child holding the point decides
BorderOfFirst(n, x, y, child_rects, hits) ==
    IF hits = {} THEN NoBorder
    ELSE OuterBorder(n, FirstOf(hits),
            Base_get_border(n.children[FirstOf(hits)],
                            x - child_rects[FirstOf(hits)].x,
                            y - child_rects[FirstOf(hits)].y))

\* the children whose rectangle holds the point
ChildrenAt(child_rects, x, y) ==
    {i \in 1..Len(child_rects) : intersects_rect([x |-> x, y |-> y], child_rects[i])}

\* ContainerList::get_border
ContainerList_get_border(n, x, y) ==
    BorderOfFirst(n, x, y, get_children_rectangles(n),
                  ChildrenAt(get_children_rectangles(n), x, y))

\* dyn ComponentBase::get_border
Base_get_border(n, x, y) ==
    IF n.kind = "Component" THEN Component_get_border(n, x, y)
    ELSE ContainerList_get_border(n, x, y)

\* an end of handle_resize that leaves the anchor where the press was
DragGrow_anchored(n, grow, rg, mouse_offset_next) ==
    IF ~rg.ok THEN [node |-> [n EXCEPT !.children[grow] = rg.node], panic |-> TRUE]
    ELSE [node |-> [n EXCEPT !.children[grow] = rg.node], panic |-> FALSE]

\* the end of ContainerList::handle_resize: rg is the result of resizing the
\* growing neighbour, which the code asserts to be Ok
DragGrow(n, grow, rg, mouse_offset_next) ==
    IF ~rg.ok THEN [node |-> [n EXCEPT !.children[grow] = rg.node], panic |-> TRUE]
    ELSE [node |-> [n EXCEPT !.children[grow] = rg.node,
                             !.resize.mouse_offset = mouse_offset_next],
          panic |-> FALSE]

\* ContainerList::handle_resize after the shrinking neighbour was resized
\* with result rs
DragShrunk(n, shrink, rs, grow, gw, gh, mouse_offset_next) ==
    IF ~rs.ok
    THEN [node |-> [n EXCEPT !.resize = ResizeNone, !.children[shrink] = rs.node],
          panic |-> FALSE]
    ELSE DragGrow([n EXCEPT !.children[shrink] = rs.node], grow,
                  Base_resize(n.children[grow], gw, gh), mouse_offset_next)

\* a drag step that resets the drag state when a neighbour is fixed
DragBorder_reset(n, index0, delta, mouse_offset_next) ==
    LET index1 == index0 + 1
        c0 == n.children[index0]
        c1 == n.children[index1]
        horizontal == n.orientation = "Horizontal"
        width0 == IF horizontal THEN c0.width + delta ELSE c0.width
        height0 == IF horizontal THEN c0.height ELSE c0.height + delta
        width1 == IF horizontal THEN c1.width - delta ELSE c1.width
        height1 == IF horizontal THEN c1.height ELSE c1.height - delta
    IN  IF LayoutFixed(n.orientation, c0) \/ LayoutFixed(n.orientation, c1)
        THEN [node |-> [n EXCEPT !.resize = ResizeNone], panic |-> FALSE]
        ELSE IF (IF horizontal THEN width0 <= 0 \/ width1 <= 0
                               ELSE height0 <= 0 \/ height1 <= 0)
        THEN [node |-> [n EXCEPT !.resize = ResizeNone], panic |-> FALSE]
        ELSE IF delta = 0 THEN [node |-> n, panic |-> FALSE]
        ELSE IF delta < 0
        \* the neighbour that gets smaller is resized first
        THEN DragShrunk(n, index0, Base_resize(c0, width0, height0),
                        index1, width1, height1, mouse_offset_next)
        ELSE DragShrunk(n, index1, Base_resize(c1, width1, height1),
                        index0, width0, height0, mouse_offset_next)

\* ContainerList::handle_resize from the fixed-size check on: index0 and
\* index0 + 1 are the (1-based) children straddling the dragged border
DragBorder(n, index0, delta, mouse_offset_next) ==
    LET index1 == index0 + 1
        c0 == n.children[index0]
        c1 == n.children[index1]
        horizontal == n.orientation = "Horizontal"
        width0 == IF horizontal THEN c0.width + delta ELSE c0.width
        height0 == IF horizontal THEN c0.height ELSE c0.height + delta
        width1 == IF horizontal THEN c1.width - delta ELSE c1.width
        height1 == IF horizontal THEN c1.height ELSE c1.height - delta
    IN  IF LayoutFixed(n.orientation, c0) \/ LayoutFixed(n.orientation, c1)
        THEN [node |-> n, panic |-> FALSE]
        ELSE IF (IF horizontal THEN width0 <= 0 \/ width1 <= 0
                               ELSE height0 <= 0 \/ height1 <= 0)
        THEN [node |-> [n EXCEPT !.resize = ResizeNone], panic |-> FALSE]
        ELSE IF delta = 0 THEN [node |-> n, panic |-> FALSE]
        ELSE IF delta < 0
        \* the neighbour that gets smaller is resized first
        THEN DragShrunk(n, index0, Base_resize(c0, width0, height0),
                        index1, width1, height1, mouse_offset_next)
        ELSE DragShrunk(n, index1, Base_resize(c1, width1, height1),
                        index0, width0, height0, mouse_offset_next)

\* a handle_resize that keeps the drag state on an event that is not a left
\* Drag
handle_resize_keep(n, mouse_offset_next, kind) ==
    IF ~n.resizable \/ kind # "DragLeft"
    THEN [node |-> n, panic |-> FALSE]
    ELSE IF n.resize.tag = "None" THEN [node |-> n, panic |-> FALSE]
    ELSE DragBorder(n,
            IF n.resize.tag = "LeftTop"
            THEN n.resize.child_index ELSE n.resize.child_index + 1,
            mouse_offset_next - n.resize.mouse_offset,
            mouse_offset_next)

\* a handle_resize that drags the borders of a list that is not resizable
handle_resize_any(n, mouse_offset_next, kind) ==
    IF kind # "DragLeft"
    THEN [node |-> [n EXCEPT !.resize = ResizeNone], panic |-> FALSE]
    ELSE IF n.resize.tag = "None" THEN [node |-> n, panic |-> FALSE]
    ELSE DragBorder(n,
            IF n.resize.tag = "LeftTop"
            THEN n.resize.child_index ELSE n.resize.child_index + 1,
            mouse_offset_next - n.resize.mouse_offset,
            mouse_offset_next)

\* ContainerList::handle_resize; panic = TRUE when the assert_eq on the
\* growing neighbour fails
handle_resize(n, mouse_offset_next, kind) ==
    IF ~n.resizable \/ kind # "DragLeft"
    THEN [node |-> [n EXCEPT !.resize = ResizeNone], panic |-> FALSE]
    ELSE IF n.resize.tag = "None" THEN [node |-> n, panic |-> FALSE]
    ELSE DragBorder(n,
            IF n.resize.tag = "LeftTop"
            THEN n.resize.child_index ELSE n.resize.child_index + 1,
            mouse_offset_next - n.resize.mouse_offset,
            mouse_offset_next)

RECURSIVE Base_handle_mouse(_, _, _, _)

\* the drag state after the dispatch loop of ContainerList::handle_mouse: a
\* left press on a border of the child holding the point sets it
PressBorder(m, mouse_offset, kind, starts, borders) ==
    IF kind = "DownLeft" /\ starts # {}
    THEN Resize_new(mouse_offset, borders[LastOf(starts)], LastOf(starts) - 1,
                    Len(m.children))
    ELSE m.resize

\* the result of the dispatch loop: rs are the children's results
DispatchResult(m, resize, rs) ==
    [node |-> [m EXCEPT !.children = [i \in 1..Len(m.children) |-> rs[i].node],
                        !.resize = resize],
     panic |-> \E i \in 1..Len(m.children) : rs[i].panic]

\* a dispatch loop that sends nothing to the children the point misses
Dispatch_quiet(m, x, y, kind, child_rects, hits, borders) ==
    DispatchResult(m,
        PressBorder(m, IF m.orientation = "Horizontal" THEN x ELSE y, kind,
                    {i \in hits : borders[i] # NoBorder}, borders),
        [i \in 1..Len(m.children) |->
            IF i \in hits
            THEN Base_handle_mouse(m.children[i], x - child_rects[i].x,
                                   y - child_rects[i].y, kind)
            ELSE [node |-> m.children[i], panic |-> FALSE]])

\* the dispatch loop of ContainerList::handle_mouse over the rectangles
\* taken after handle_resize; hits are the children holding the point and
\* borders what each of them reports there
Dispatch(m, x, y, kind, child_rects, hits, borders) ==
    DispatchResult(m,
        PressBorder(m, IF m.orientation = "Horizontal" THEN x ELSE y, kind,
                    {i \in hits : borders[i] # NoBorder}, borders),
        [i \in 1..Len(m.children) |->
            IF i \in hits
            THEN Base_handle_mouse(m.children[i], x - child_rects[i].x,
                                   y - child_rects[i].y, kind)
            ELSE Base_handle_mouse(m.children[i], 0, 0, PointerLeft)])

\* ContainerList::handle_mouse after handle_resize returned hr
DispatchAfterDrag(hr, x, y, kind, child_rects) ==
    IF hr.panic THEN hr
    ELSE Dispatch(hr.node, x, y, kind, child_rects,
            ChildrenAt(child_rects, x, y),
            [i \in 1..Len(child_rects) |->
                IF intersects_rect([x |-> x, y |-> y], child_rects[i])
                THEN Base_get_border(hr.node.children[i], x - child_rects[i].x,
                                     y - child_rects[i].y)
                ELSE NoBorder])

\* a None arm that keeps the drag state
PointerLeftResult_dragging(n, rs) ==
    [node |-> [n EXCEPT !.children = [i \in 1..Len(n.children) |-> rs[i].node]],
     panic |-> \E i \in 1..Len(n.children) : rs[i].panic]

\* the None arm of ContainerList::handle_mouse: rs are the children's results
PointerLeftResult(n, rs) ==
    [node |-> [n EXCEPT !.children = [i \in 1..Len(n.children) |-> rs[i].node],
                        !.resize = ResizeNone],
     panic |-> \E i \in 1..Len(n.children) : rs[i].panic]

\* ContainerList::handle_mouse after the drag step
MouseAfterDrag(hr, x, y, kind) ==
    DispatchAfterDrag(hr, x, y, kind, get_children_rectangles(hr.node))

\* a handle_mouse that treats a move as any other event
ContainerList_handle_mouse_moved(n, x, y, kind) ==
    IF kind = PointerLeft
    THEN PointerLeftResult(n, [i \in 1..Len(n.children) |->
                                  Base_handle_mouse(n.children[i], 0, 0, PointerLeft)])
    ELSE MouseAfterDrag(
            handle_resize(n, IF n.orientation = "Horizontal" THEN x ELSE y, kind),
            x, y, kind)

\* ContainerList::handle_mouse; panic = TRUE when an assertion failed on the way
ContainerList_handle_mouse(n, x, y, kind) ==
    IF kind = PointerLeft
    THEN PointerLeftResult(n, [i \in 1..Len(n.children) |->
                                  Base_handle_mouse(n.children[i], 0, 0, PointerLeft)])
    ELSE IF kind = "Moved" THEN [node |-> n, panic |-> FALSE]
    ELSE MouseAfterDrag(
            handle_resize(n, IF n.orientation = "Horizontal" THEN x ELSE y, kind),
            x, y, kind)

\* dyn ComponentBase::handle_mouse
Base_handle_mouse(n, x, y, kind) ==
    IF n.kind = "Component"
    THEN [node |-> Component_handle_mouse(n, x, y, kind), panic |-> FALSE]
    ELSE ContainerList_handle_mouse(n, x, y, kind)

-----------------------------------------------------------------------------
(* The trees a host builds (tests/tests.rs, tests/interactive.rs): leaves are
   created, optionally fixed on an axis, and appended to 0 x 0 containers *)

\* add_component / add_container with the result dropped (let _ = ...)
Add(n, child) == add_child(n, child).node

\* the tree of test_tui_tiling: "a" (fixed height) over "b" in a resizable
\* vertical list, beside "c" in a resizable horizontal list; borders 1. The
\* test fixes the height of "a" at 4; here it is 2, the least a leaf of
\* border 1 accepts, so that the tree fits the heights of the model
TestTree ==
    Add(Add(NewContainerList("horizontal", "Horizontal", TRUE, 0, 0),
            Add(Add(NewContainerList("vertical", "Vertical", TRUE, 0, 0),
                    set_fixed_height(NewComponent("a", 1), 2)),
                NewComponent("b", 1))),
        NewComponent("c", 1))

\* a resizable row of two borderless leaves over a bordered leaf of fixed
\* height, in a list that is not resizable
RowTree ==
    Add(Add(NewContainerList("root", "Vertical", FALSE, 0, 0),
            Add(Add(NewContainerList("row", "Horizontal", TRUE, 0, 0),
                    NewComponent("p", 0)),
                NewComponent("q", 0))),
        set_fixed_height(NewComponent("s", 1), 2))

\* a leaf fixed across the layout axis, a free leaf, a leaf fixed along it
FixedTree ==
    Add(Add(Add(NewContainerList("root", "Horizontal", TRUE, 0, 0),
                set_fixed_height(NewComponent("a", 0), 2)),
            NewComponent("b", 0)),
        set_fixed_width(NewComponent("c", 0), 2))

\* a list that is not resizable and holds only leaves fixed along its axis
AllFixedTree ==
    Add(Add(NewContainerList("root", "Vertical", FALSE, 0, 0),
            set_fixed_height(NewComponent("a", 0), 1)),
        set_fixed_height(NewComponent("b", 1), 2))

\* a bordered leaf whose height is fixed below twice its border, beside a
\* free leaf, in a resizable row
ThinTree ==
    Add(Add(NewContainerList("root", "Horizontal", TRUE, 0, 0),
            set_fixed_height(NewComponent("t", 1), 1)),
        NewComponent("u", 1))

InitTrees == {TestTree, RowTree, FixedTree, AllFixedTree, ThinTree}

-----------------------------------------------------------------------------
(* The state machine: a host feeding resize calls and input events to the root *)

Widths == 0..MaxWidth
Heights == 0..MaxHeight
Columns == 0..(MaxWidth - 1)
Rows == 0..(MaxHeight - 1)

\* the mouse events the host sends: one of each kind the code tells apart
\* (UpLeft stands for every kind that is neither a left press nor a left
\* drag nor a move) and the pointer leaving
HostMouseKinds == {"DownLeft", "DragLeft", "UpLeft", "Moved", PointerLeft}

Init ==
    /\ tree \in InitTrees
    /\ last = "Ok"

\* a panic ends the program
Running == last # "Panic"

\* tui.resize(width, height)
Resize(width, height) ==
    /\ Running
    /\ LET r == Base_resize(tree, width, height)
       IN  /\ tree' = r.node
           /\ last' = IF r.ok THEN "Ok" ELSE "Err"

\* tui.handle_key(KeyEvent)
HandleKey(key) ==
    /\ Running
    /\ tree' = ContainerList_handle_key(tree, key)
    /\ last' = "Ok"

\* tui.handle_mouse(x, y, kind)
HandleMouse(x, y, kind) ==
    /\ Running
    /\ LET r == ContainerList_handle_mouse(tree, x, y, kind)
       IN  /\ tree' = r.node
           /\ last' = IF r.panic THEN "Panic" ELSE "Ok"

Next ==
    \/ \E width \in Widths, height \in Heights : Resize(width, height)
    \/ \E key \in Keys : HandleKey(key)
    \/ \E x \in Columns, y \in Rows, kind \in HostMouseKinds :
          HandleMouse(x, y, kind)

Spec == Init /\ [][Next]_vars

-----------------------------------------------------------------------------
(* A single Component driven through ComponentBase: here tree is the leaf and
   last records the call made: its kind (op), its key (arg), the Focus the
   leaf had before (was) and what the call returned (ret) *)

\* the leaves a host creates: border 0 or 1, free or of fixed height
Leaves ==
    {NewComponent("a", 0), NewComponent("a", 1),
     set_fixed_height(NewComponent("a", 0), 2),
     set_fixed_height(NewComponent("a", 1), 2)}

CompInit ==
    /\ tree \in Leaves
    /\ last = [op |-> "new", arg |-> "", was |-> "None", ret |-> "Ok"]

\* component.resize(width, height)
CompResize(width, height) ==
    LET r == Component_resize(tree, width, height)
    IN  /\ tree' = r.node
        /\ last' = [op |-> "resize", arg |-> "", was |-> tree.focus,
                    ret |-> IF r.ok THEN "Ok" ELSE "Err"]

\* component.handle_key(KeyEvent)
CompKey(key) ==
    LET hk == Component_handle_key(tree, key)
    IN  /\ tree' = hk.node
        /\ last' = [op |-> "key", arg |-> key, was |-> tree.focus, ret |-> hk.border]

CompNext ==
    \/ \E width \in Widths, height \in Heights : CompResize(width, height)
    \/ \E key \in Keys : CompKey(key)

CompSpec == CompInit /\ [][CompNext]_vars

-----------------------------------------------------------------------------
(* Name searches on a tree as built and as laid out: last records the call
   (op), its path (arg) and what it returned (ret) *)

RECURSIVE NodeNames(_)
\* the names of the nodes of a tree
NodeNames(n) ==
    {n.name} \cup
    (IF n.kind = "Component" THEN {}
     ELSE UNION {NodeNames(n.children[i]) : i \in 1..Len(n.children)})

RECURSIVE Depth(_)
\* the number of levels below a node
Depth(n) ==
    IF n.kind = "Component" \/ n.children = <<>> THEN 0
    ELSE 1 + Depth(n.children[CHOOSE i \in 1..Len(n.children) :
                    \A j \in 1..Len(n.children) :
                        Depth(n.children[j]) <= Depth(n.children[i])])

\* the paths a host asks for: segments that are names of the tree or empty,
\* up to one segment more than the tree is deep
NamePaths(n) ==
    UNION {[1..k -> NodeNames(n) \cup {""}] : k \in 1..(Depth(n) + 1)}

\* the trees as built and after tui.resize to the largest size
SizedTrees ==
    InitTrees \cup {Base_resize(t, MaxWidth, MaxHeight).node : t \in InitTrees}

SearchInit ==
    /\ tree \in SizedTrees
    /\ last = [op |-> "new", arg |-> <<>>, was |-> "", ret |-> NotFound]

\* tui.as_container().search_name(path)
SearchName(path) ==
    /\ tree' = tree
    /\ last' = [op |-> "search_name", arg |-> path, was |-> "",
                ret |-> search_name(tree, path)]

SearchNext == \E path \in NamePaths(tree) : SearchName(path)

SearchSpec == SearchInit /\ [][SearchNext]_vars

-----------------------------------------------------------------------------
(* Adding children to a list that is in use: last records the call (op), the
   child added (arg), the list as it was before the call (was) and Ok or Err
   (ret) *)

\* the children a host adds: a leaf with or without a border, or a list
\* holding one leaf
AddedLeaves == {NewComponent("n", 0), NewComponent("n", 1)}

AddedList == Add(NewContainerList("m", "Vertical", TRUE, 0, 0), NewComponent("k", 0))

BuildInit ==
    /\ tree \in SizedTrees
    /\ last = [op |-> "new", arg |-> tree, was |-> tree, ret |-> "Ok"]

\* tui.resize(width, height)
BuildResize(width, height) ==
    LET r == Base_resize(tree, width, height)
    IN  /\ tree' = r.node
        /\ last' = [op |-> "resize", arg |-> tree, was |-> tree,
                    ret |-> IF r.ok THEN "Ok" ELSE "Err"]

\* tui.add_component(child), once for each name
AddComponent(child) ==
    /\ child.name \notin NodeNames(tree)
    /\ LET r == add_child(tree, child)
       IN  /\ tree' = r.node
           /\ last' = [op |-> "add_component", arg |-> child, was |-> tree,
                       ret |-> IF r.ok THEN "Ok" ELSE "Err"]

\* tui.add_container(child), once for each name
AddContainer(child) ==
    /\ child.name \notin NodeNames(tree)
    /\ LET r == add_child(tree, child)
       IN  /\ tree' = r.node
           /\ last' = [op |-> "add_container", arg |-> child, was |-> tree,
                       ret |-> IF r.ok THEN "Ok" ELSE "Err"]

BuildNext ==
    \/ \E width \in Widths, height \in Heights : BuildResize(width, height)
    \/ \E child \in AddedLeaves : AddComponent(child)
    \/ AddContainer(AddedList)

BuildSpec == BuildInit /\ [][BuildNext]_vars

-----------------------------------------------------------------------------
(* Border drags on a tree three levels deep, on a screen wide enough for it *)

\* a resizable row "w" holding a row "x" of two borderless leaves and a leaf
\* of border 2, beside a borderless leaf "z", in a resizable row
DeepTree ==
    Add(Add(NewContainerList("root", "Horizontal", TRUE, 0, 0),
            Add(Add(NewContainerList("w", "Horizontal", TRUE, 0, 0),
                    Add(Add(NewContainerList("x", "Horizontal", TRUE, 0, 0),
                            NewComponent("l1", 0)),
                        NewComponent("l2", 0))),
                NewComponent("l3", 2))),
        NewComponent("z", 0))

WideColumns == 0..(WideWidth - 1)

DeepInit ==
    /\ tree = DeepTree
    /\ last = "Ok"

\* the host lays the tree out on the wide screen and moves the pointer along
\* its top row with the left button: presses and drags
DeepNext ==
    \/ Resize(WideWidth, MaxHeight)
    \/ \E x \in WideColumns, kind \in {"DownLeft", "DragLeft"} : HandleMouse(x, 0, kind)

DeepSpec == DeepInit /\ [][DeepNext]_vars

-----------------------------------------------------------------------------
(* Mouse events on a tree that has been laid out once *)

\* the trees after one successful tui.resize
LaidOutTrees ==
    {Base_resize(t, width, height).node :
        <<t, width, height>> \in
            {c \in InitTrees \X Widths \X Heights : Base_resize(c[1], c[2], c[3]).ok}}

MouseInit ==
    /\ tree \in LaidOutTrees
    /\ last = "Ok"

MouseNext ==
    \E x \in Columns, y \in Rows, kind \in HostMouseKinds : HandleMouse(x, y, kind)

MouseSpec == MouseInit /\ [][MouseNext]_vars

-----------------------------------------------------------------------------
(* A single Component resized, given keys and mouse events, and rendered:
   tree is the leaf and last records the call made: its kind (op), its key or
   mouse event kind (arg), the Focus and the dirty flag the leaf had before
   (was) and what the call returned, handed to the widget or drew (ret); op
   is "panic" when the call panicked *)

LeafInit ==
    /\ tree \in Leaves
    /\ last = [op |-> "new", arg |-> "",
               was |-> [focus |-> "None", invalidated |-> TRUE], ret |-> "Ok"]

\* a panic ends the program
LeafRunning == last.op # "panic"

\* what last records of the leaf before a call
Before(c) == [focus |-> c.focus, invalidated |-> c.invalidated]

\* component.resize(width, height)
LeafResize(width, height) ==
    /\ LeafRunning
    /\ LET r == Component_resize(tree, width, height)
       IN  /\ tree' = r.node
           /\ last' = [op |-> "resize", arg |-> "", was |-> Before(tree),
                       ret |-> IF r.ok THEN "Ok" ELSE "Err"]

\* component.handle_key(KeyEvent)
LeafKey(key) ==
    /\ LeafRunning
    /\ LET hk == Component_handle_key(tree, key)
       IN  /\ tree' = hk.node
           /\ last' = [op |-> "key", arg |-> key, was |-> Before(tree),
                       ret |-> hk.border]

\* component.handle_mouse(x, y, kind): where the subtraction overflows the
\* call panics (debug build) or goes on with the wrapped value (release build)
LeafMouse(x, y, kind) ==
    /\ LeafRunning
    /\ \/ /\ tree' = Component_handle_mouse(tree, x, y, kind)
          /\ last' = [op |-> "mouse", arg |-> kind, was |-> Before(tree),
                      ret |-> Component_forward_mouse(tree, x, y, kind)]
       \/ /\ Component_mouse_overflows(tree, x, y, kind)
          /\ tree' = tree
          /\ last' = [op |-> "panic", arg |-> kind, was |-> Before(tree),
                      ret |-> NotSent]

\* component.render(area, buf) with the area the component was sized for
LeafRender ==
    /\ LeafRunning
    /\ tree' = Component_render(tree)
    /\ last' = [op |-> "render", arg |-> "", was |-> Before(tree),
                ret |-> Component_render_writes(tree,
                            [x |-> 0, y |-> 0, width |-> tree.width,
                             height |-> tree.height])]

LeafNext ==
    \/ \E width \in Widths, height \in Heights : LeafResize(width, height)
    \/ \E key \in Keys : LeafKey(key)
    \/ \E x \in Columns, y \in Rows, kind \in MouseKinds \cup {PointerLeft} :
          LeafMouse(x, y, kind)
    \/ LeafRender

LeafSpec == LeafInit /\ [][LeafNext]_vars

-----------------------------------------------------------------------------
(* Key events on a tree that has been laid out once *)

KeyInit ==
    /\ tree \in LaidOutTrees
    /\ last = "Ok"

KeyNext == \E key \in Keys : HandleKey(key)

KeySpec == KeyInit /\ [][KeyNext]_vars

-----------------------------------------------------------------------------
(* Mixed input: resize calls, keys and mouse events of every kind (press,
   drag and release of the left button, press and drag of the right one,
   scroll, move, pointer left) in any order *)

MixedNext ==
    \/ \E width \in Widths, height \in Heights : Resize(width, height)
    \/ \E key \in Keys : HandleKey(key)
    \/ \E x \in Columns, y \in Rows, kind \in MouseKinds \cup {PointerLeft} :
          HandleMouse(x, y, kind)

MixedSpec == Init /\ [][MixedNext]_vars

-----------------------------------------------------------------------------
(* Mouse events on trees with a list that is not resizable and whose children
   are free: as the root, and nested in a resizable row *)

\* a row that is not resizable: a resizable column of a bordered and a
\* borderless leaf, beside a bordered leaf
LockedRoot ==
    Add(Add(NewContainerList("root", "Horizontal", FALSE, 0, 0),
            Add(Add(NewContainerList("vertical", "Vertical", TRUE, 0, 0),
                    NewComponent("a", 1)),
                NewComponent("b", 0))),
        NewComponent("c", 1))

\* the same with the row resizable and the column not
LockedInner ==
    Add(Add(NewContainerList("root", "Horizontal", TRUE, 0, 0),
            Add(Add(NewContainerList("locked", "Vertical", FALSE, 0, 0),
                    NewComponent("a", 1)),
                NewComponent("b", 0))),
        NewComponent("c", 1))

LockedInit ==
    /\ tree \in {Base_resize(t, width, height).node :
                    <<t, width, height>> \in
                        {c \in {LockedRoot, LockedInner} \X {MaxWidth, WideWidth} \X Heights :
                            Base_resize(c[1], c[2], c[3]).ok}}
    /\ last = "Ok"

LockedNext ==
    \E x \in WideColumns, y \in Rows, kind \in HostMouseKinds : HandleMouse(x, y, kind)

LockedSpec == LockedInit /\ [][LockedNext]_vars

-----------------------------------------------------------------------------
(* Vocabulary of the properties *)

RECURSIVE Paths(_)
\* the paths of all nodes of a tree, the root's being <<>>
Paths(n) ==
    {<<>>} \cup
    (IF n.kind = "Component" THEN {}
     ELSE UNION {{<<i>> \o q : q \in Paths(n.children[i])} : i \in 1..Len(n.children)})

LeafPaths(n) == {q \in Paths(n) : NodeAt(n, q).kind = "Component"}
ListPaths(n) == {q \in Paths(n) : NodeAt(n, q).kind = "ContainerList"}

\* the leaves whose Focus is Focus or PartialFocus
FocusedLeaves(n) == {q \in LeafPaths(n) : NodeAt(n, q).focus # "None"}

\* every node has the same width and height in both trees
SameSizes(a, b) ==
    \A q \in Paths(a) : /\ NodeAt(a, q).width = NodeAt(b, q).width
                        /\ NodeAt(a, q).height = NodeAt(b, q).height

\* every leaf has the same Focus value in both trees
SameFocus(a, b) ==
    \A q \in LeafPaths(a) : NodeAt(a, q).focus = NodeAt(b, q).focus

\* the sum of the children's extents along the layout axis
ChildrenExtent(n) ==
    SumSeq([i \in 1..Len(n.children) |-> LayoutExtent(n.orientation, n.children[i])])

RECURSIVE AbsOrigin(_, _)
\* the absolute origin of the node at a path: the sum of the offsets of the
\* rectangles on the way down
AbsOrigin(n, path) ==
    IF path = <<>> THEN [x |-> 0, y |-> 0]
    ELSE PosAdd(get_positions(n)[Head(path)],
                AbsOrigin(n.children[Head(path)], Tail(path)))

\* the point lies in the rectangle of the node at the path
InNode(n, path, pos) ==
    LET o == AbsOrigin(n, path)
        node == NodeAt(n, path)
    IN  /\ o.x <= pos.x /\ pos.x < o.x + node.width
        /\ o.y <= pos.y /\ pos.y < o.y + node.height

\* the leaves occupying a point: the point lies in the leaf's rectangle and
\* in the rectangle of every container around it below the root
Occupants(n, pos) ==
    {q \in LeafPaths(n) : \A k \in 1..Len(q) : InNode(n, SubSeq(q, 1, k), pos)}

\* whether a node is fixed across the layout axis
CrossFixed(orientation, c) ==
    IF orientation = "Horizontal" THEN is_fixed_height(c) ELSE is_fixed_width(c)

\* every leaf but the one at path q is the same in both trees
OthersSame(a, b, q) == \A p \in LeafPaths(a) \ {q} : NodeAt(b, p) = NodeAt(a, p)

\* the point one step across the border an arrow key names, from the leaf at
\* path q
Adjacent(n, q, key) ==
    LET o == AbsOrigin(n, q)
        c == NodeAt(n, q)
    IN  CASE key = "Up" -> [x |-> o.x, y |-> o.y - 1]
          [] key = "Down" -> [x |-> o.x, y |-> o.y + c.height]
          [] key = "Left" -> [x |-> o.x - 1, y |-> o.y]
          [] key = "Right" -> [x |-> o.x + c.width, y |-> o.y]

\* the point lies inside the bounds of the root
InRoot(n, pos) ==
    /\ 0 <= pos.x /\ pos.x < n.width
    /\ 0 <= pos.y /\ pos.y < n.height

\* the leaf of a tree with the given name
LeafNamed(n, name) == CHOOSE q \in LeafPaths(n) : NodeAt(n, q).name = name

-----------------------------------------------------------------------------
(* The claims *)

\* C1 (as stated): whenever resize(w, h) on the root returns Err, every node
\* of the tree has the width and height, and every leaf the Focus, it had
\* before the call.
C1_ResizeRollback ==
    [][last' = "Err" => (SameSizes(tree, tree') /\ SameFocus(tree, tree'))]_vars

\* C2 (as stated): after every ContainerList::resize(w, h) that returns Ok,
\* on any container, the children's extents along the layout axis sum to w
\* (Horizontal) or h (Vertical).
C2_ExtentConservation_AsStated ==
    \A q \in ListPaths(tree), w \in Widths, h \in Heights :
        LET n == NodeAt(tree, q)
            r == ContainerList_resize(n, w, h)
        IN  r.ok => ChildrenExtent(r.node) = (IF n.orientation = "Horizontal" THEN w ELSE h)

\* C2 (amended): after every ContainerList::resize(w, h) that returns Ok for
\* a (w, h) other than the container's recorded size, on a container with at
\* least one child that is not fixed along the layout axis, the children's
\* extents along the layout axis sum to w (Horizontal) or h (Vertical).
C2_ExtentConservation ==
    \A q \in ListPaths(tree), w \in Widths, h \in Heights :
        LET n == NodeAt(tree, q)
            r == ContainerList_resize(n, w, h)
        IN  (/\ r.ok
             /\ n.width # w \/ n.height # h
             /\ \E i \in 1..Len(n.children) : ~LayoutFixed(n.orientation, n.children[i]))
            => ChildrenExtent(r.node) = (IF n.orientation = "Horizontal" THEN w ELSE h)

\* C2 witness: a resize has succeeded on a root holding both a fixed and a
\* ratio child, and the children fill its width
C2_Witness ==
    /\ last = "Ok"
    /\ tree.orientation = "Horizontal"
    /\ tree.width = 5
    /\ \E i \in 1..Len(tree.children) : LayoutFixed("Horizontal", tree.children[i])
    /\ \E i \in 1..Len(tree.children) : ~LayoutFixed("Horizontal", tree.children[i])
    /\ ChildrenExtent(tree) = 5

\* C3 (as stated): after every ContainerList::resize(w, h) that returns Ok,
\* every child's extent across the layout axis equals the container's, the
\* children fixed across the axis included.
C3_CrossAxis_AsStated ==
    \A q \in ListPaths(tree), w \in Widths, h \in Heights :
        LET n == NodeAt(tree, q)
            r == ContainerList_resize(n, w, h)
        IN  r.ok => \A i \in 1..Len(n.children) :
                CrossExtent(n.orientation, r.node.children[i]) = CrossExtent(n.orientation, r.node)

\* C3 (amended): after every ContainerList::resize(w, h) that returns Ok for
\* a (w, h) other than the container's recorded size, every child that is not
\* a Component fixed across the layout axis has the container's extent across
\* the axis, and every Component fixed across it keeps the extent it had.
C3_CrossAxis ==
    \A q \in ListPaths(tree), w \in Widths, h \in Heights :
        LET n == NodeAt(tree, q)
            r == ContainerList_resize(n, w, h)
        IN  (r.ok /\ (n.width # w \/ n.height # h))
            => \A i \in 1..Len(n.children) :
                 IF n.children[i].kind = "Component" /\ CrossFixed(n.orientation, n.children[i])
                 THEN CrossExtent(n.orientation, r.node.children[i])
                        = CrossExtent(n.orientation, n.children[i])
                 ELSE CrossExtent(n.orientation, r.node.children[i])
                        = CrossExtent(n.orientation, r.node)

\* C3 witness: a horizontal root was resized to height 3; its free child has
\* that height and its child of fixed height 2 has kept it
C3_Witness ==
    /\ last = "Ok"
    /\ tree.orientation = "Horizontal"
    /\ tree.height = 3
    /\ \E i \in 1..Len(tree.children) :
          /\ tree.children[i].kind = "Component"
          /\ ~tree.children[i].fixed_height
          /\ tree.children[i].height = 3
    /\ \E i \in 1..Len(tree.children) :
          /\ tree.children[i].kind = "Component"
          /\ tree.children[i].fixed_height
          /\ tree.children[i].height = 2

\* C4: no call on the root (a resize, successful or not, a mouse event, a
\* drag among them, or a key) changes the width of a Component of fixed width
\* or the height of a Component of fixed height.
C4_FixedImmunity ==
    [][\A q \in LeafPaths(tree) :
          /\ NodeAt(tree, q).fixed_width => NodeAt(tree', q).width = NodeAt(tree, q).width
          /\ NodeAt(tree, q).fixed_height => NodeAt(tree', q).height = NodeAt(tree, q).height]_vars

\* C4 witness: in the test tree at width 5 a drag has moved the border
\* between "vertical" and "c" (a resize gives 2 and 3); "a" still has its
\* fixed height
C4_Witness ==
    /\ tree.name = "horizontal"
    /\ tree.width = 5
    /\ tree.children[1].width = 3
    /\ tree.children[2].width = 2
    /\ tree.children[1].children[1].fixed_height
    /\ tree.children[1].children[1].height = 2
    /\ tree.children[1].children[1].width = 3

\* C5: at most one leaf of the tree has Focus or PartialFocus, after any
\* sequence of calls on the root that starts from a tree with no focus.
C5_FocusExclusivity == Cardinality(FocusedLeaves(tree)) <= 1

\* C5 witness: keys have moved PartialFocus to a leaf away from the origin
C5_Witness ==
    /\ Cardinality(FocusedLeaves(tree)) = 1
    /\ \E q \in FocusedLeaves(tree) :
          /\ NodeAt(tree, q).focus = "PartialFocus"
          /\ AbsOrigin(tree, q) # [x |-> 0, y |-> 0]

\* C6: when ContainerList::resize(w, h) returns Err, on the root or on a
\* nested list, the list's recorded width and height are what they were
\* before the call, and a resize to them returns Ok.
C6_ErrKeepsSize ==
    \A q \in ListPaths(tree), w \in Widths, h \in Heights :
        LET n == NodeAt(tree, q)
            r == ContainerList_resize(n, w, h)
        IN  ~r.ok =>
              /\ r.node.width = n.width
              /\ r.node.height = n.height
              /\ ContainerList_resize(r.node, n.width, n.height).ok

\* C6 witness: a resize has failed on a root that had been resized before
C6_Witness ==
    /\ last = "Err"
    /\ tree.width > 0
    /\ tree.height > 0

\* C7: Component::resize(w, h) returns Err exactly when w or h is below
\* max(2 * border, 1), and then leaves the Component as it was (width,
\* height, focus and dirty flag); a fresh list of two leaves of border 1
\* rejects resize(1, 20) and resize(20, 1) and accepts resize(20, 10).
C7_MinimumSize ==
    /\ \A q \in LeafPaths(tree), w \in Widths, h \in Heights, dirty \in BOOLEAN :
          LET c == [NodeAt(tree, q) EXCEPT !.invalidated = dirty]
              r == Component_resize(c, w, h)
              min == IF 2 * c.border_width > 1 THEN 2 * c.border_width ELSE 1
          IN  /\ ~r.ok <=> (w < min \/ h < min)
              /\ ~r.ok => r.node = c
    /\ \A o \in {"Horizontal", "Vertical"} :
          LET t == Add(Add(NewContainerList("t", o, TRUE, 0, 0), NewComponent("a", 1)),
                       NewComponent("b", 1))
          IN  /\ ~Base_resize(t, 1, 20).ok
              /\ ~Base_resize(t, 20, 1).ok
              /\ Base_resize(t, 20, 10).ok

\* C7 witness: a resize of the test tree has failed at "b", which is below
\* its minimum and as it was built, after "a" had accepted its width
C7_Witness ==
    /\ last = "Err"
    /\ tree.name = "horizontal"
    /\ NodeAt(tree, LeafNamed(tree, "a")).width = 2
    /\ NodeAt(tree, LeafNamed(tree, "b")) = NewComponent("b", 1)

\* C8: when no leaf has Focus or PartialFocus, Enter, Up, Down, Left or Right
\* sent to the root makes the leaf occupying (0, 0) PartialFocus and changes
\* no other leaf; any other key changes nothing.
C8_FirstFocus ==
    FocusedLeaves(tree) = {} =>
        \A key \in Keys :
            LET t2 == ContainerList_handle_key(tree, key)
            IN  IF key \in {"Enter", "Up", "Down", "Left", "Right"}
                THEN \A q \in Occupants(tree, [x |-> 0, y |-> 0]) :
                        /\ NodeAt(t2, q).focus = "PartialFocus"
                        /\ OthersSame(tree, t2, q)
                ELSE t2 = tree

\* C8 witness: the only leaf with focus is the one occupying (0, 0), and it
\* has PartialFocus
C8_Witness ==
    /\ tree.width > 0
    /\ \E q \in Occupants(tree, [x |-> 0, y |-> 0]) :
          /\ FocusedLeaves(tree) = {q}
          /\ NodeAt(tree, q).focus = "PartialFocus"

\* C9: through the root's handle_key, Enter makes the leaf with PartialFocus
\* Focus and Esc makes the leaf with Focus PartialFocus; no other leaf
\* changes and search_focused reports the same leaf at the same position.
C9_PromoteDemote ==
    \A q \in FocusedLeaves(tree) :
        LET key == IF NodeAt(tree, q).focus = "PartialFocus" THEN "Enter" ELSE "Esc"
            t2 == ContainerList_handle_key(tree, key)
        IN  /\ NodeAt(t2, q).focus =
                  (IF NodeAt(tree, q).focus = "PartialFocus" THEN "Focus" ELSE "PartialFocus")
            /\ OthersSame(tree, t2, q)
            /\ search_focused(t2).path = q
            /\ search_focused(t2).pos = search_focused(tree).pos
            /\ search_focused(t2).pos = AbsOrigin(tree, q)

\* C9 witness: a leaf away from the origin has been promoted to Focus and
\* search_focused reports it
C9_Witness ==
    \E q \in FocusedLeaves(tree) :
        /\ NodeAt(tree, q).focus = "Focus"
        /\ search_focused(tree).tag = "Focus"
        /\ search_focused(tree).pos # [x |-> 0, y |-> 0]

\* C10: when the leaf with PartialFocus gets an arrow key through the root
\* and the point one step across that border of it lies inside the root and
\* is occupied by a leaf, that leaf becomes PartialFocus and the first one
\* None.
C10_ArrowNavigation ==
    \A q \in FocusedLeaves(tree) :
        NodeAt(tree, q).focus = "PartialFocus" =>
            \A key \in {"Up", "Down", "Left", "Right"} :
                LET adj == Adjacent(tree, q, key)
                    t2 == ContainerList_handle_key(tree, key)
                IN  InRoot(tree, adj) =>
                        \A p \in Occupants(tree, adj) :
                            /\ NodeAt(t2, p).focus = "PartialFocus"
                            /\ NodeAt(t2, q).focus = "None"

\* C10 witness: the leaf with PartialFocus has an occupied point above it or
\* to its left, which an arrow key reaches it from
C10_Witness ==
    \E q \in FocusedLeaves(tree) :
        /\ NodeAt(tree, q).focus = "PartialFocus"
        /\ \E key \in {"Up", "Left"} :
              /\ InRoot(tree, Adjacent(tree, q, key))
              /\ Occupants(tree, Adjacent(tree, q, key)) # {}

\* C11: when the leaf with PartialFocus gets an arrow key through the root
\* and the point one step across that border of it lies outside the root,
\* that leaf has PartialFocus after the call and every other leaf has None.
C11_ArrowAtEdge ==
    \A q \in FocusedLeaves(tree) :
        NodeAt(tree, q).focus = "PartialFocus" =>
            \A key \in {"Up", "Down", "Left", "Right"} :
                LET t2 == ContainerList_handle_key(tree, key)
                IN  ~InRoot(tree, Adjacent(tree, q, key)) =>
                        /\ NodeAt(t2, q).focus = "PartialFocus"
                        /\ \A p \in LeafPaths(tree) \ {q} : NodeAt(t2, p).focus = "None"

\* C11 witness: the leaf with PartialFocus ends at the right edge of the
\* root, where Right leaves it
C11_Witness ==
    /\ tree.width > 0
    /\ \E q \in FocusedLeaves(tree) :
          /\ NodeAt(tree, q).focus = "PartialFocus"
          /\ AbsOrigin(tree, q).x > 0
          /\ AbsOrigin(tree, q).x + NodeAt(tree, q).width = tree.width
          /\ ~InRoot(tree, Adjacent(tree, q, "Right"))

\* C12 (as stated): Component::handle_key with Enter on a Component whose
\* Focus is None sets its Focus to PartialFocus and returns no exit border.
C12_EnterFromNone_AsStated ==
    (last.op = "key" /\ last.arg = "Enter" /\ last.was = "None")
        => (tree.focus = "PartialFocus" /\ last.ret = NoBorder)

\* C12 (amended): Component::handle_key with Enter on a Component whose Focus
\* is None sets its Focus to Focus and returns no exit border.
C12_EnterFromNone ==
    (last.op = "key" /\ last.arg = "Enter" /\ last.was = "None")
        => (tree.focus = "Focus" /\ last.ret = NoBorder)

\* C12 witness: Enter has just been handled by a leaf that had no focus
C12_Witness ==
    /\ last.op = "key"
    /\ last.arg = "Enter"
    /\ last.was = "None"
    /\ tree.focus = "Focus"

\* the (1-based) index of the child before the border a list is dragging
DragIndex(n) ==
    IF n.resize.tag = "LeftTop" THEN n.resize.child_index ELSE n.resize.child_index + 1

\* the lists of a tree that are resizable and have a drag in progress on a
\* border between two children that are not fixed along the layout axis
DraggingLists(t) ==
    {q \in ListPaths(t) :
        LET n == NodeAt(t, q)
        IN  /\ n.resizable
            /\ n.resize.tag # "None"
            /\ ~LayoutFixed(n.orientation, n.children[DragIndex(n)])
            /\ ~LayoutFixed(n.orientation, n.children[DragIndex(n) + 1])}

\* the offsets along the layout axis a mouse event can carry
Offsets(n) == IF n.orientation = "Horizontal" THEN Columns ELSE Rows

\* the node with its layout-axis extent changed by d, its other extent kept
Stretched(orientation, c, d) ==
    IF orientation = "Horizontal"
    THEN <<c.width + d, c.height>>
    ELSE <<c.width, c.height + d>>

\* a left drag to offset off moves the border of n by a delta that leaves
\* both neighbours a positive extent and that the shrinking neighbour accepts
DragAccepted(n, off) ==
    LET i == DragIndex(n)
        delta == off - n.resize.mouse_offset
        shrink == IF delta < 0 THEN i ELSE i + 1
        new == Stretched(n.orientation, n.children[shrink], IF delta < 0 THEN delta ELSE -delta)
    IN  /\ LayoutExtent(n.orientation, n.children[i]) + delta > 0
        /\ LayoutExtent(n.orientation, n.children[i + 1]) - delta > 0
        /\ Base_resize(n.children[shrink], new[1], new[2]).ok

\* C13 (as stated): in a resizable list with a drag in progress between two
\* children that are not fixed, a left Drag at an offset that differs from the
\* anchor by delta, with both resulting extents positive and the shrinking
\* resize successful, adds delta to the extent of the child before the border
\* and takes it from the child after it, keeps their cross extents and every
\* other child, and leaves the children's extents summing to the list's.
C13_BorderDrag ==
    \A q \in DraggingLists(tree) :
        LET n == NodeAt(tree, q)
            i == DragIndex(n)
        IN  \A off \in Offsets(n) :
                LET hr == handle_resize(n, off, "DragLeft")
                    delta == off - n.resize.mouse_offset
                    o == n.orientation
                IN  DragAccepted(n, off) =>
                      /\ ~hr.panic
                      /\ LayoutExtent(o, hr.node.children[i])
                            = LayoutExtent(o, n.children[i]) + delta
                      /\ LayoutExtent(o, hr.node.children[i + 1])
                            = LayoutExtent(o, n.children[i + 1]) - delta
                      /\ CrossExtent(o, hr.node.children[i]) = CrossExtent(o, n.children[i])
                      /\ CrossExtent(o, hr.node.children[i + 1])
                            = CrossExtent(o, n.children[i + 1])
                      /\ \A k \in 1..Len(n.children) :
                            k \notin {i, i + 1} => hr.node.children[k] = n.children[k]
                      /\ ChildrenExtent(hr.node) = LayoutExtent(o, n)

\* no list of the tree has a drag in progress
Idle(t) == \A q \in ListPaths(t) : NodeAt(t, q).resize = ResizeNone

RECURSIVE NamesAlong(_, _)
\* the names of the nodes on the way from a child of n down to the node at a
\* path
NamesAlong(n, path) ==
    IF path = <<>> THEN <<>>
    ELSE <<n.children[Head(path)].name>> \o NamesAlong(n.children[Head(path)], Tail(path))

\* C15 (as stated): whenever search_name(path) returns a leaf, the names from
\* the searched list's child down to that leaf are the segments of path; a
\* path with segments left at a Component returns None.
C15_SearchNameExact ==
    (last.op = "search_name" /\ last.ret.found)
        => NamesAlong(tree, last.ret.path) = last.arg

\* the lists of t (the root at <<>>) whose names from the root's child down
\* are the given segments
ListsNamed(t, names) ==
    {q \in ListPaths(t) : NamesAlong(t, q) = names}

\* the names of the children of a list
ChildNames(n) == {n.children[i].name : i \in 1..Len(n.children)}

\* C16: search_name returns None when, at the list the earlier segments lead
\* to, the next segment equals no child's name (the empty path included), and
\* when the path ends at a Container and at no leaf; what it returns is never
\* a Container.
C16_SearchNameAbsent ==
    last.op = "search_name" =>
        /\ last.ret.found => NodeAt(tree, last.ret.path).kind = "Component"
        /\ \A k \in 0..(Len(last.arg) - 1) :
             \A q \in ListsNamed(tree, SubSeq(last.arg, 1, k)) :
                (/\ ListsNamed(tree, SubSeq(last.arg, 1, k)) = {q}
                 /\ last.arg[k + 1] \notin ChildNames(NodeAt(tree, q)))
                    => ~last.ret.found
        /\ (/\ ListsNamed(tree, last.arg) # {}
            /\ \A p \in LeafPaths(tree) : NamesAlong(tree, p) # last.arg)
               => ~last.ret.found

\* a search whose path ended at a nested Container has returned None
C16_Witness ==
    /\ last.op = "search_name"
    /\ ~last.ret.found
    /\ Len(last.arg) = 1
    /\ ListsNamed(tree, last.arg) # {}

\* the point lies in the rectangle with the given origin and the size of the
\* node
InRectOf(origin, node, pos) ==
    /\ origin.x <= pos.x /\ pos.x < origin.x + node.width
    /\ origin.y <= pos.y /\ pos.y < origin.y + node.height

\* what C17 says of one point
Contained(t, pos) ==
    LET r == search_position(t, pos)
    IN  r.found =>
            /\ InRectOf(r.pos, NodeAt(t, r.path), pos)
            /\ search_name(t, NamesAlong(t, r.path)).found
            /\ search_name(t, NamesAlong(t, r.path)).path = r.path
            /\ search_name(t, NamesAlong(t, r.path)).pos = r.pos

\* C17: for every point at which search_position finds a leaf, the point lies
\* in the rectangle at the returned position with the leaf's width and
\* height, and the returned position is the one search_name returns for that
\* leaf.
C17_PositionContained ==
    \A x \in Columns, y \in Rows : Contained(tree, [x |-> x, y |-> y])

\* after a successful resize a point is found inside a leaf of a nested list
\* that does not lie at the root's origin
C17_Witness ==
    /\ last = "Ok"
    /\ \E x \in Columns, y \in Rows :
          LET r == search_position(tree, [x |-> x, y |-> y])
          IN  /\ r.found
              /\ Len(r.path) = 2
              /\ r.pos.y > 0
              /\ r.pos.y < y

\* the call before this state added a child to the root
Added == last.op \in {"add_component", "add_container"}

\* the child the call appended
NewChild == tree.children[Len(tree.children)]

\* C18 (as stated): when add_component or add_container returns Ok on a list
\* of nonzero size, the new child has a nonzero extent along the layout axis
\* and the children fill the list's extent; when the sizing pass at the
\* list's width and height has no room for the child, the call returns Err.
C18_AddResizes ==
    Added =>
        /\ (last.ret = "Ok" /\ last.was.width > 0 /\ last.was.height > 0)
              => /\ LayoutExtent(tree.orientation, NewChild) > 0
                 /\ ChildrenExtent(tree) = LayoutExtent(tree.orientation, tree)
        /\ ~ContainerList_resize_always(
                [last.was EXCEPT !.children = Append(last.was.children, last.arg)],
                last.was.width, last.was.height).ok
              => last.ret = "Err"

\* the lists of a tree with a drag in progress
ListsInDrag(t) == {q \in ListPaths(t) : NodeAt(t, q).resize.tag # "None"}

\* the drag state of a list after handle_mouse(x, y, kind)
DragStateAfter(n, x, y, kind) == ContainerList_handle_mouse(n, x, y, kind).node.resize

NoneOrAnew(state, mouse_offset) ==
    \/ state = ResizeNone
    \/ (state.tag # "None" /\ state.mouse_offset = mouse_offset)

DragAborted(n, off) ==
    LET i == DragIndex(n)
        delta == off - n.resize.mouse_offset
        shrink == IF delta < 0 THEN i ELSE i + 1
        new == Stretched(n.orientation, n.children[shrink], IF delta < 0 THEN delta ELSE -delta)
    IN  \/ LayoutExtent(n.orientation, n.children[i]) + delta <= 0
        \/ LayoutExtent(n.orientation, n.children[i + 1]) - delta <= 0
        \/ (delta # 0 /\ ~Base_resize(n.children[shrink], new[1], new[2]).ok)

\* C20 (as stated): in a resizable list with a drag in progress between two
\* children that are not fixed, a left Drag that is aborted changes the width
\* and height of no node at or below the list and leaves the drag state None.
C20_DragAbortAtomic ==
    \A q \in DraggingLists(tree) :
        LET n == NodeAt(tree, q)
        IN  \A off \in WideColumns :
                DragAborted(n, off) =>
                    /\ ~handle_resize(n, off, "DragLeft").panic
                    /\ handle_resize(n, off, "DragLeft").node.resize = ResizeNone
                    /\ SameSizes(n, handle_resize(n, off, "DragLeft").node)

\* the resizable lists of a tree with a drag in progress on a border beside a
\* child that is fixed along the layout axis
ListsInFixedDrag(t) ==
    {q \in ListsInDrag(t) :
        LET n == NodeAt(t, q)
        IN  /\ n.resizable
            /\ \/ LayoutFixed(n.orientation, n.children[DragIndex(n)])
               \/ LayoutFixed(n.orientation, n.children[DragIndex(n) + 1])}

\* the children of a list have the widths and heights they have in another
SameChildSizes(n, m) ==
    \A k \in 1..Len(n.children) :
        /\ m.children[k].width = n.children[k].width
        /\ m.children[k].height = n.children[k].height

\* C21 (as stated): a left Drag delivered to a list with a drag in progress
\* beside a child fixed along the layout axis changes no child's size and
\* leaves the list's drag state None.
C21_FixedNeighbour_AsStated ==
    \A q \in ListsInFixedDrag(tree) :
        \A x \in Columns, y \in Rows :
            /\ ~ContainerList_handle_mouse(NodeAt(tree, q), x, y, "DragLeft").panic
            /\ SameChildSizes(NodeAt(tree, q),
                    ContainerList_handle_mouse(NodeAt(tree, q), x, y, "DragLeft").node)
            /\ DragStateAfter(NodeAt(tree, q), x, y, "DragLeft") = ResizeNone

\* C21: a left Drag delivered to a resizable list with a drag in progress
\* beside a child fixed along the layout axis changes no child's size and
\* leaves the list's drag state as it was: the drag stays in progress.
C21_FixedNeighbour ==
    \A q \in ListsInFixedDrag(tree) :
        \A x \in Columns, y \in Rows :
            /\ ~ContainerList_handle_mouse(NodeAt(tree, q), x, y, "DragLeft").panic
            /\ SameChildSizes(NodeAt(tree, q),
                    ContainerList_handle_mouse(NodeAt(tree, q), x, y, "DragLeft").node)
            /\ DragStateAfter(NodeAt(tree, q), x, y, "DragLeft") = NodeAt(tree, q).resize

\* a border beside a child fixed along the axis has been pressed, and the
\* left Drags since have left it so: the list is in a drag and the pressed
\* leaf below it has Focus
C21_Witness ==
    /\ last = "Ok"
    /\ ListsInFixedDrag(tree) # {}
    /\ \E q \in ListsInFixedDrag(tree) :
          \E p \in FocusedLeaves(tree) :
              /\ Len(p) > Len(q)
              /\ SubSeq(p, 1, Len(q)) = q
              /\ NodeAt(tree, p).focus = "Focus"

\* C22 (as stated): in every reachable state of a tree built through the
\* public API, a drag step that has resized the shrinking neighbour finds the
\* resize of the growing neighbour Ok: the assert_eq of handle_resize never
\* fails.
C22_GrowNeverFails ==
    last # "Panic"

\* the cell lies on a border between two adjacent children of the list: the
\* child holding it reports there a border along the layout axis that faces
\* a sibling
OnSharedBorder(n, x, y) ==
    \E i \in ChildrenAt(get_children_rectangles(n), x, y) :
        LET rect == get_children_rectangles(n)[i]
            border == Base_get_border(n.children[i], x - rect.x, y - rect.y)
        IN  IF n.orientation = "Horizontal"
            THEN (border = "Left" /\ i > 1) \/ (border = "Right" /\ i < Len(n.children))
            ELSE (border = "Top" /\ i > 1) \/ (border = "Bottom" /\ i < Len(n.children))

\* C23 (as stated): a left press puts a list into a drag state only if the
\* pressed cell lies on a border between two adjacent children along the
\* layout axis; a press on a border facing the list's outer edge, or on a
\* cross-axis border of any child, leaves the drag state None.
C23_DragStart ==
    \A q \in ListPaths(tree) :
        \A x \in Columns, y \in Rows :
            OnSharedBorder(NodeAt(tree, q), x, y)
                \/ DragStateAfter(NodeAt(tree, q), x, y, "DownLeft") = ResizeNone

\* the children of a list that are not fixed along its layout axis
RatioChildren(n) ==
    {i \in 1..Len(n.children) : ~LayoutFixed(n.orientation, n.children[i])}

\* the sum of the extents of the children fixed along the layout axis
FixedExtent(n) ==
    SumSeq([i \in 1..Len(n.children) |->
        IF i \in RatioChildren(n) THEN 0 ELSE LayoutExtent(n.orientation, n.children[i])])

\* the extent left to the ratio children when the list gets width and height
Available(n, width, height) ==
    (IF n.orientation = "Horizontal" THEN width ELSE height) - FixedExtent(n)

\* the last ratio child
LastRatio(n) == CHOOSE i \in RatioChildren(n) : \A j \in RatioChildren(n) : j <= i

\* the extents a pass hands out over the extent avail with weights
\* weight(i) of sum total: a fixed child its extent, a ratio child but the
\* last the floor of its share (as the f64 product truncates), the last ratio
\* child what the others leave
Distribution(n, avail, weight(_), total) ==
    [i \in 1..Len(n.children) |->
        IF i \notin RatioChildren(n) THEN LayoutExtent(n.orientation, n.children[i])
        ELSE IF i # LastRatio(n) THEN F64Share(weight(i), total, avail)
        ELSE avail - SumSeq([j \in 1..Len(n.children) |->
                        IF j \in RatioChildren(n) /\ j # LastRatio(n)
                        THEN F64Share(weight(j), total, avail) ELSE 0])]

\* the extents of the children along the layout axis
Extents(n) == [i \in 1..Len(n.children) |-> LayoutExtent(n.orientation, n.children[i])]

\* what C24 says of resize(width, height) on one list
Proportional(n, width, height) ==
    (/\ ContainerList_resize(n, width, height).ok
     /\ n.width # width \/ n.height # height
     /\ \A i \in RatioChildren(n) : Extents(n)[i] > 0)
        => Extents(ContainerList_resize(n, width, height).node)
              = Distribution(n, Available(n, width, height),
                    LAMBDA i : Extents(n)[i],
                    SumSeq([i \in 1..Len(n.children) |->
                        IF i \in RatioChildren(n) THEN Extents(n)[i] ELSE 0]))

EqualShares(n, width, height) ==
    Distribution(n, Available(n, width, height), LAMBDA i : 1,
                 Cardinality(RatioChildren(n)))

\* every child of the list accepts the extent given to it along the layout
\* axis, with the list's new extent across it
ChildrenAccept(n, sizes, width, height) ==
    \A i \in 1..Len(n.children) :
        IF n.orientation = "Horizontal"
        THEN Base_resize(n.children[i], sizes[i], height).ok
        ELSE Base_resize(n.children[i], width, sizes[i]).ok

\* what C25 says of resize(width, height) on one list
EqualFallback(n, width, height) ==
    (/\ n.width # width \/ n.height # height
     /\ \E i \in RatioChildren(n) : Extents(n)[i] = 0)
        => /\ ContainerList_resize(n, width, height).ok
                => /\ Extents(ContainerList_resize(n, width, height).node)
                        = EqualShares(n, width, height)
                   /\ \A i \in RatioChildren(n) :
                        Extents(ContainerList_resize(n, width, height).node)[i] > 0
           /\ (/\ Available(n, width, height) >= 0
               /\ \A i \in RatioChildren(n) : EqualShares(n, width, height)[i] > 0
               /\ ChildrenAccept(n, EqualShares(n, width, height), width, height))
                => ContainerList_resize(n, width, height).ok

\* C25: when a ratio child of a list has extent zero, the sizing pass gives
\* each of the N ratio children 1/N of the available extent whatever their
\* extents (the floor for all but the last, the rest for the last): a
\* successful pass leaves exactly these extents, none of them zero, and the
\* pass succeeds when these shares are nonzero and the children accept them.
C25_ZeroWeightFallback ==
    \A q \in ListPaths(tree), width \in Widths, height \in Heights :
        EqualFallback(NodeAt(tree, q), width, height)

\* a resize has succeeded on a list to which a child was added after the
\* layout: its ratio children had zero and nonzero extents and have the
\* equal shares now
C25_Witness ==
    /\ last.op = "resize"
    /\ last.ret = "Ok"
    /\ \E i, j \in RatioChildren(last.was) :
          /\ Extents(last.was)[i] = 0
          /\ Extents(last.was)[j] > 0
    /\ Extents(tree) = EqualShares(last.was, tree.width, tree.height)

\* the extents the pass computes for resize(width, height) on a list: the
\* equal shares when a ratio child has extent zero, else the proportional ones
PassShares(n, width, height) ==
    IF \E i \in RatioChildren(n) : Extents(n)[i] = 0
    THEN EqualShares(n, width, height)
    ELSE Distribution(n, Available(n, width, height),
            LAMBDA i : Extents(n)[i],
            SumSeq([i \in 1..Len(n.children) |->
                IF i \in RatioChildren(n) THEN Extents(n)[i] ELSE 0]))

\* the fixed children alone exceed the extent, or a ratio child's share is
\* zero
NoRoom(n, width, height) ==
    \/ Available(n, width, height) < 0
    \/ \E i \in RatioChildren(n) : PassShares(n, width, height)[i] = 0

\* what C26 says of resize(width, height) on one list
FailsWithoutRoom(n, width, height) ==
    /\ NoRoom(n, width, height) => ~ContainerList_resize(n, width, height).ok
    /\ ContainerList_resize(n, width, height).ok
          => /\ ~NoRoom(n, width, height)
             /\ ChildrenAccept(n, PassShares(n, width, height), width, height)

\* C26 (as stated): ContainerList::resize returns Err whenever the fixed
\* children's extents along the layout axis sum to more than the requested
\* extent and whenever a ratio child's computed share is zero; it returns Ok
\* only if neither holds and every child's own resize succeeds.
C26_SizingFailure_AsStated ==
    \A q \in ListPaths(tree), width \in Widths, height \in Heights :
        FailsWithoutRoom(NodeAt(tree, q), width, height)

\* C26: the same of every resize(w, h) to a size other than the list's
\* recorded width and height.
C26_SizingFailure ==
    \A q \in ListPaths(tree), width \in Widths, height \in Heights :
        (NodeAt(tree, q).width # width \/ NodeAt(tree, q).height # height)
            => FailsWithoutRoom(NodeAt(tree, q), width, height)

\* a resize has failed on a laid-out list all of whose children are fixed
\* along the layout axis (some extent asked for is below their sum), and the
\* list kept its recorded size
C26_Witness ==
    /\ last.op = "resize"
    /\ last.ret = "Err"
    /\ RatioChildren(last.was) = {}
    /\ \E height \in Heights : Available(last.was, last.was.width, height) < 0
    /\ last.was.width > 0
    /\ tree.width = last.was.width
    /\ tree.height = last.was.height

\* in every list of the tree at most one child's rectangle holds a point
OneChildAt(t, pos) ==
    \A q \in ListPaths(t) :
        Cardinality(ChildrenAt(get_children_rectangles(NodeAt(t, q)),
            pos.x - AbsOrigin(t, q).x, pos.y - AbsOrigin(t, q).y)) <= 1

\* what C27 says of the tree after handle_mouse(x, y, kind): t is the tree
\* the event left
Dispatched(t, pos, kind) ==
    /\ Cardinality(Occupants(t, pos)) <= 1
    /\ \A p \in LeafPaths(t) \ Occupants(t, pos) : NodeAt(t, p).focus = "None"
    /\ kind = "DownLeft" => \A p \in Occupants(t, pos) : NodeAt(t, p).focus = "Focus"

\* C27: a mouse event at (x, y) that is neither the pointer leaving nor Moved
\* reaches at most one child of each list, and every child whose rectangle
\* does not hold the point gets the pointer-left event: afterwards no leaf
\* but the one holding the point has a focus, and after a left press the leaf
\* holding the point has Focus.
C27_MouseDispatch ==
    \A x \in Columns, y \in Rows :
        /\ x < tree.width /\ y < tree.height => OneChildAt(tree, [x |-> x, y |-> y])
        /\ \A kind \in MouseKinds \ {"Moved"} :
              ContainerList_handle_mouse(tree, x, y, kind).panic
                \/ Dispatched(ContainerList_handle_mouse(tree, x, y, kind).node,
                              [x |-> x, y |-> y], kind)

\* a press has given Focus to a leaf of a nested list, and no other leaf has
\* a focus
C27_Witness ==
    /\ last = "Ok"
    /\ \E p \in LeafPaths(tree) :
          /\ Len(p) = 2
          /\ NodeAt(tree, p).focus = "Focus"
          /\ FocusedLeaves(tree) = {p}

\* the border C28 names for a cell of a Component of size (w, h) and border
\* thickness b
NamedBorder(w, h, b, x, y) ==
    IF x >= w \/ y >= h THEN NoBorder
    ELSE IF x < b THEN "Left"
    ELSE IF x >= w - b THEN "Right"
    ELSE IF y < b THEN "Top"
    ELSE IF y >= h - b THEN "Bottom"
    ELSE NoBorder

\* C28: Component::get_border(x, y) on a Component of size (w, h) and border
\* thickness b is None if x >= w or y >= h, else Left if x < b, else Right if
\* x >= w - b, else Top if y < b, else Bottom if y >= h - b, else None; a
\* corner cell resolves to Left or Right, and a Component with b = 0 reports
\* no border.
C28_ComponentBorder ==
    \A x \in Widths, y \in Heights :
        /\ Component_get_border(tree, x, y)
              = NamedBorder(tree.width, tree.height, tree.border_width, x, y)
        /\ (/\ x < tree.width /\ y < tree.height
            /\ x < tree.border_width \/ x >= tree.width - tree.border_width
            /\ y < tree.border_width \/ y >= tree.height - tree.border_width)
              => Component_get_border(tree, x, y) \in {"Left", "Right"}
        /\ tree.border_width = 0 => Component_get_border(tree, x, y) = NoBorder

\* a Component with a border has been resized to a size with corners, edges
\* and an interior
C28_Witness ==
    /\ last.op = "resize"
    /\ last.ret = "Ok"
    /\ tree.border_width = 1
    /\ tree.width >= 3
    /\ tree.height >= 3
    /\ Component_get_border(tree, 1, 0) = "Top"
    /\ Component_get_border(tree, 0, 0) = "Left"
    /\ Component_get_border(tree, 1, 1) = NoBorder

\* the border a child of the list reports faces the outside of the list: a
\* border across the layout axis, the leading border of the first child or
\* the trailing border of the last child
FacesOutside(n, i, border) ==
    LET leading == IF n.orientation = "Horizontal" THEN "Left" ELSE "Top"
        trailing == IF n.orientation = "Horizontal" THEN "Right" ELSE "Bottom"
    IN  \/ border \in {"Left", "Right", "Top", "Bottom"} \ {leading, trailing}
        \/ (border = leading /\ i = 1)
        \/ (border = trailing /\ i = Len(n.children))

\* what C29 says of get_border(x, y) on one list
OuterOnly(n, x, y) ==
    LET rects == get_children_rectangles(n)
    IN  /\ ChildrenAt(rects, x, y) = {} => ContainerList_get_border(n, x, y) = NoBorder
        /\ \A i \in ChildrenAt(rects, x, y) :
              LET border == Base_get_border(n.children[i], x - rects[i].x, y - rects[i].y)
              IN  ContainerList_get_border(n, x, y)
                    = (IF border # NoBorder /\ FacesOutside(n, i, border)
                       THEN border ELSE NoBorder)

\* C29: ContainerList::get_border at a point on a border of the child
\* holding the point returns that border if it faces the outside of the list
\* (a border across the layout axis, the leading border of the first child,
\* the trailing border of the last child), and None if the border lies
\* between two siblings, if the point is in the child's interior or if no
\* child holds it.
C29_ListBorder ==
    \A q \in ListPaths(tree) :
        \A x \in Columns, y \in Rows : OuterOnly(NodeAt(tree, q), x, y)

\* a laid-out list reports Top at a cell of its second child, and None at a
\* cell where a child reports the border it shares with a sibling
C29_Witness ==
    /\ last.ret = "Ok"
    /\ tree.width > 0
    /\ \E x \in Columns, y \in Rows :
          /\ ContainerList_get_border(tree, x, y) = NoBorder
          /\ \E i \in ChildrenAt(get_children_rectangles(tree), x, y) :
                Base_get_border(tree.children[i],
                                x - get_children_rectangles(tree)[i].x,
                                y - get_children_rectangles(tree)[i].y) # NoBorder
    /\ \E x \in Columns :
          /\ ContainerList_get_border(tree, x, 0) = "Top"
          /\ ChildrenAt(get_children_rectangles(tree), x, 0) = {2}

\* what C30 says of one key: t is the tree just rendered, p its leaf in
\* Focus and r the tree after the root's handle_key. The widget answers a key
\* by asking for a redraw, so the leaf the key was delivered to is the one
\* that is no longer clean
DeliveredTo(t, p, r) ==
    /\ SameFocus(t, r)
    /\ NodeAt(r, p).invalidated
    /\ \A q \in LeafPaths(t) \ {p} : ~NodeAt(r, q).invalidated

\* C30: while a leaf has Focus, every key but Escape that goes through the
\* root's handle_key (Enter and the arrows included) is delivered to the
\* widget of that leaf and to no other, and leaves the Focus value of every
\* leaf as it was.
C30_FocusedKeys ==
    \A p \in LeafPaths(tree) :
        NodeAt(tree, p).focus = "Focus" =>
            \A key \in Keys \ {"Esc"} :
                DeliveredTo(Base_render(tree), p,
                            ContainerList_handle_key(Base_render(tree), key))

\* a leaf away from the origin has Focus after a resize or an event
\* succeeded, and no other leaf has a focus
C30_Witness ==
    /\ last = "Ok"
    /\ \E p \in LeafPaths(tree) :
          /\ NodeAt(tree, p).focus = "Focus"
          /\ FocusedLeaves(tree) = {p}
          /\ AbsOrigin(tree, p) # [x |-> 0, y |-> 0]
          /\ tree.width > 0

\* C31: when the leaf with PartialFocus gets an arrow key through the root,
\* the point one step across that border of it lies inside the root and
\* search_position finds no leaf there, no leaf of the tree has Focus or
\* PartialFocus after the call.
C31_LostFocus ==
    \A q \in FocusedLeaves(tree) :
        NodeAt(tree, q).focus = "PartialFocus" =>
            \A key \in {"Up", "Down", "Left", "Right"} :
                LET adj == Adjacent(tree, q, key)
                IN  (InRoot(tree, adj) /\ ~search_position(tree, adj).found) =>
                        FocusedLeaves(ContainerList_handle_key(tree, key)) = {}

\* C31 witness: the leaf with PartialFocus is shorter than the root, and the
\* point below it is inside the root and holds no leaf
C31_Witness ==
    \E q \in FocusedLeaves(tree) :
        /\ NodeAt(tree, q).focus = "PartialFocus"
        /\ InRoot(tree, Adjacent(tree, q, "Down"))
        /\ ~search_position(tree, Adjacent(tree, q, "Down")).found
        /\ Occupants(tree, Adjacent(tree, q, "Down")) = {}

\* a Moved event at any cell leaves the node at path q of tree t as it was:
\* its fields and those of every node below it
MovedIgnored(t, q) ==
    \A x \in Columns, y \in Rows :
        Base_handle_mouse(NodeAt(t, q), x, y, "Moved") =
            [node |-> NodeAt(t, q), panic |-> FALSE]

\* C32: a Moved mouse event delivered to a Component or a ContainerList
\* changes nothing: no Focus value, no width or height, no dirty flag
\* (whether the node is dirty or has just been rendered) and no drag state.
C32_MovedIgnored ==
    \A q \in Paths(tree) :
        MovedIgnored(tree, q) /\ MovedIgnored(Base_render(tree), q)

\* C32 witness: a drag is in progress in a list and a leaf has Focus
C32_Witness ==
    /\ \E q \in ListPaths(tree) : NodeAt(tree, q).resize.tag # "None"
    /\ \E p \in LeafPaths(tree) : NodeAt(tree, p).focus = "Focus"

\* the cell lies in the interior rectangle of the component: inside the
\* outer rectangle and off its border
InInterior(c, x, y) ==
    /\ c.border_width <= x /\ x < c.width - c.border_width
    /\ c.border_width <= y /\ y < c.height - c.border_width

\* C33 (as stated): Component::handle_mouse sets Focus = Focus on a
\* left-button Down or Drag at any point inside the outer rectangle, and
\* forwards an event to the widget, with coordinates reduced by the border
\* thickness, only when the point is inside the interior rectangle and the
\* Focus is Focus after that update; an event on an unfocused Component that
\* is not a left press or drag is never forwarded.
C33_MouseForward ==
    \A x \in Columns, y \in Rows, kind \in MouseKinds :
        LET after == Component_handle_mouse(tree, x, y, kind)
            sent == Component_forward_mouse(tree, x, y, kind)
        IN  /\ (kind \in {"DownLeft", "DragLeft"} /\ x < tree.width /\ y < tree.height)
                    => after.focus = "Focus"
            /\ sent.sent =>
                    /\ InInterior(tree, x, y)
                    /\ after.focus = "Focus"
                    /\ sent.x = x - tree.border_width
                    /\ sent.y = y - tree.border_width
            /\ (tree.focus # "Focus" /\ kind \notin {"DownLeft", "DragLeft"})
                    => ~sent.sent

\* render drew nothing
NothingDrawn == [border |-> FALSE, widget |-> FALSE]

\* C34: a Component's dirty flag is cleared only by render; every operation
\* that changes the Component's Focus value sets the flag; and render called
\* on a Component whose flag is clear writes nothing and leaves the flag
\* clear.
C34_DirtyTracking ==
    [][/\ (tree.invalidated /\ ~tree'.invalidated) => last'.op = "render"
       /\ tree'.focus # tree.focus => tree'.invalidated
       /\ (last'.op = "render" /\ ~tree.invalidated) =>
              (last'.ret = NothingDrawn /\ ~tree'.invalidated)]_vars

\* C34 witness: render was called on a sized leaf in Focus whose flag was
\* clear: the leaf had been rendered and nothing had changed it since
C34_Witness ==
    /\ last.op = "render"
    /\ ~last.was.invalidated
    /\ last.was.focus = "Focus"
    /\ ~tree.invalidated
    /\ tree.width > 0 /\ tree.height > 0

RECURSIVE PathBefore(_, _)
\* path p comes before path q in depth-first child order
PathBefore(p, q) ==
    IF p = <<>> \/ q = <<>> THEN FALSE
    ELSE \/ Head(p) < Head(q)
         \/ Head(p) = Head(q) /\ PathBefore(Tail(p), Tail(q))

\* the first focused leaf in depth-first child order
FirstFocused(t) ==
    CHOOSE q \in FocusedLeaves(t) : \A p \in FocusedLeaves(t) : ~PathBefore(p, q)

\* C35: search_focused returns the first leaf in depth-first child order
\* whose Focus is not None, tagged with that leaf's Focus value, together
\* with the leaf's absolute origin, and None when no leaf is focused;
\* search_position at the returned origin yields the same leaf and the same
\* position.
C35_SearchFocused ==
    IF FocusedLeaves(tree) = {}
    THEN search_focused(tree) = NotFocused
    ELSE /\ search_focused(tree).path = FirstFocused(tree)
         /\ search_focused(tree).tag = NodeAt(tree, FirstFocused(tree)).focus
         /\ search_focused(tree).pos = AbsOrigin(tree, FirstFocused(tree))
         /\ search_position(tree, search_focused(tree).pos) =
                [found |-> TRUE, path |-> search_focused(tree).path,
                 pos |-> search_focused(tree).pos]

\* C35 witness: search_focused reports a leaf in Focus inside a nested list,
\* away from the origin
C35_Witness ==
    /\ search_focused(tree).tag = "Focus"
    /\ Len(search_focused(tree).path) = 2
    /\ search_focused(tree).pos # [x |-> 0, y |-> 0]

\* C36: starting from a tree with no focused leaf, after any interleaving of
\* key events, mouse events (press, drag, release, scroll, move, pointer
\* left) and resize calls on the root, a leaf that has Focus or PartialFocus
\* is the only one: every other leaf of the tree has None.
C36_MixedExclusivity ==
    \A p \in LeafPaths(tree) :
        NodeAt(tree, p).focus # "None" =>
            \A q \in LeafPaths(tree) \ {p} : NodeAt(tree, q).focus = "None"

\* C36 witness: a resize has just failed while a list is in a drag (started
\* by a press) and a leaf away from the origin has PartialFocus (given by a
\* key)
C36_Witness ==
    /\ last = "Err"
    /\ \E q \in ListPaths(tree) : NodeAt(tree, q).resize.tag # "None"
    /\ \E p \in LeafPaths(tree) :
          /\ NodeAt(tree, p).focus = "PartialFocus"
          /\ AbsOrigin(tree, p) # [x |-> 0, y |-> 0]

\* the result hr of a drag step is no abort: no assertion failed and the drag
\* is still in progress
NoAbort(hr) == ~hr.panic /\ hr.node.resize.tag # "None"

\* children i and i + 1 have the same width and height in both lists
SameNeighbours(a, b, i) ==
    \A k \in {i, i + 1} :
        /\ a.children[k].width = b.children[k].width
        /\ a.children[k].height = b.children[k].height

\* what the two drag steps first and second and the single step one leave
\* behind in list n: the anchors are the offsets off1 and off2, and the
\* neighbours have the same extents after the two steps as after the one
AsOne(n, first, second, one, off1, off2) ==
    /\ first.node.resize.mouse_offset = off1
    /\ second.node.resize.mouse_offset = off2
    /\ SameNeighbours(second.node, one.node, DragIndex(n))

\* what C37 says of a list n with a drag in progress and two left Drags, at
\* off1 and then at off2, neither aborted
TwoDragsAsOne(n, off1, off2) ==
    LET first == handle_resize(n, off1, "DragLeft")
        second == handle_resize(first.node, off2, "DragLeft")
        one == handle_resize(n, off2, "DragLeft")
    IN  (NoAbort(first) /\ NoAbort(second)) => AsOne(n, first, second, one, off1, off2)

\* the same where the single Drag from the anchor to off2 is not aborted
\* either
TwoDragsAsOneDone(n, off1, off2) ==
    LET first == handle_resize(n, off1, "DragLeft")
        second == handle_resize(first.node, off2, "DragLeft")
        one == handle_resize(n, off2, "DragLeft")
    IN  (NoAbort(first) /\ NoAbort(second) /\ NoAbort(one)) =>
            AsOne(n, first, second, one, off1, off2)

\* C37 (as stated): after each successful drag step the drag anchor is the
\* event's offset, so two left Drags with no abort in between leave the two
\* neighbours of the dragged border with the extents one left Drag from the
\* original anchor to the final offset leaves them with.
C37_CumulativeDrag_AsStated ==
    \A q \in DraggingLists(tree) :
        \A off1 \in WideColumns, off2 \in WideColumns :
            TwoDragsAsOne(NodeAt(tree, q), off1, off2)

\* C37 (amended): two left Drags with no abort in between leave the anchor at
\* the last offset and the two neighbours with the extents one left Drag from
\* the original anchor to the final offset leaves them with, when that one
\* Drag is not aborted either.
C37_CumulativeDrag ==
    \A q \in DraggingLists(tree) :
        \A off1 \in WideColumns, off2 \in WideColumns :
            TwoDragsAsOneDone(NodeAt(tree, q), off1, off2)

\* C37 witness: the root drags the border between a nested list and a leaf,
\* and two Drags away from the anchor, the second back across it, are not
\* aborted, nor is the one Drag to the final offset
C37_Witness ==
    /\ <<>> \in DraggingLists(tree)
    /\ tree.children[DragIndex(tree)].kind = "ContainerList"
    /\ \E off1 \in WideColumns, off2 \in WideColumns :
          /\ off2 < tree.resize.mouse_offset /\ tree.resize.mouse_offset < off1
          /\ NoAbort(handle_resize(tree, off1, "DragLeft"))
          /\ NoAbort(handle_resize(handle_resize(tree, off1, "DragLeft").node, off2, "DragLeft"))
          /\ NoAbort(handle_resize(tree, off2, "DragLeft"))
          /\ ~SameNeighbours(tree, handle_resize(tree, off2, "DragLeft").node, DragIndex(tree))

\* the lists of a tree that are not resizable
LockedLists(t) == {q \in ListPaths(t) : ~NodeAt(t, q).resizable}

\* C38 (as stated): a list created with resizable = false never changes the
\* width or height of any of its direct children in response to mouse
\* events: no mouse event delivered to the root changes them.
C38_NotResizable_AsStated ==
    [][\A q \in LockedLists(tree) : SameChildSizes(NodeAt(tree, q), NodeAt(tree', q))]_vars

\* C38 (amended): a mouse event delivered to a list that is not resizable
\* leaves its direct children their widths and heights, whatever its drag
\* state, where no list around it resizes it.
C38_NotResizable ==
    \A q \in LockedLists(tree) :
        \A x \in WideColumns, y \in Rows, kind \in HostMouseKinds :
            SameChildSizes(NodeAt(tree, q),
                           ContainerList_handle_mouse(NodeAt(tree, q), x, y, kind).node)

\* C38 witness: a press has put a list that is not resizable into a drag
\* state on a border between two children that are not fixed
C38_Witness ==
    \E q \in LockedLists(tree) :
        LET n == NodeAt(tree, q)
        IN  /\ n.resize.tag # "None"
            /\ ~LayoutFixed(n.orientation, n.children[DragIndex(n)])
            /\ ~LayoutFixed(n.orientation, n.children[DragIndex(n) + 1])
            /\ LayoutExtent(n.orientation, n.children[DragIndex(n)]) > 2

\* C39 (as stated): after any sequence of mouse events delivered to the
\* root, at most one list of the tree has a drag state other than None.
C39_SingleDrag == Cardinality(ListsInDrag(tree)) <= 1

====
